---- MODULE Spec2Model ----
(***************************************************************************)
(* Model of the collect_data action of tt-github-actions: the report       *)
(* parsers (pytest JUnit XML, generic xUnit, tarred JSON, builder XML,     *)
(* parameter-support JSON), the parser dispatch parse_file, the            *)
(* process-wide failure flag of shared.py, the benchmark mappers, the      *)
(* report discovery and pipeline assembly of cicd.py, the OpTest reports   *)
(* of optests.py and the batch of generate_data.py.                        *)
(*                                                                         *)
(* The module holds several specifications over one set of variables; each *)
(* specification drives one group of variables and leaves the others at    *)
(* their initial value:                                                    *)
(*   Spec          the batch of generate_data.py (__main__)                *)
(*   SpecDispatch  parse_file and the parsers' can_parse probes            *)
(*   SpecPytest    get_tests of the pytest parser on one report            *)
(*   SpecXunit     get_tests of the xUnit parser, run and run again        *)
(*   SpecJob       the loop of cicd.py over the reports of one job         *)
(*   SpecTar       parse of the tarred-archive parser on one archive       *)
(*   SpecBuilder   parse of the builder parser on one report               *)
(*   SpecParam     parse of a parameter-support parser on one report       *)
(*   SpecShield    map_benchmark_data of the tt-shield mapper on one report*)
(*   SpecBench     create_json_from_report on the reports of a pipeline    *)
(*   SpecOptests   should_use_builder_pytest_parser and                    *)
(*                 create_optest_reports of optests.py                     *)
(*   SpecAssembly  create_cicd_json_for_data_analysis of cicd.py           *)
(***************************************************************************)
EXTENDS Integers, Sequences, FiniteSets, TLC

VARIABLES
    \* ---- generate_data.py __main__ and the module globals it touches
    pc,                     \* position of __main__
    todo,                   \* the inputs still to process: the reports of each job, the
                            \* benchmark reports; and how many files the artifacts hold
    report_failure,         \* shared.py: module global report_failure
    validation_failed,      \* history: some record failed schema validation in this run
    attempted,              \* history: the phases the run has entered
    exit_status,            \* "running", "ok" (exit code 0) or "error" (uncaught exception)
    raised,                 \* history: the statement whose exception ended the run
    \* ---- test_parser.py parse_file and the parsers' probes
    d_call,                 \* the last call made: its kind and arguments
    d_outcome,              \* what that call returned or raised, and the calls it made
    \* ---- parsers/python_pytest_parser.py get_tests
    p_call,                 \* the call made: the report it reads and the build it runs in
    p_out,                  \* what the call returned or raised
    \* ---- parsers/python_unittest_parser.py get_tests
    x_runs,                 \* the runs made so far: report, clock reading, outcome
    \* ---- cicd.py: the tests list of one job
    j_reports,              \* the reports of the job processed so far
    j_tests,                \* `tests`: the records collected for the job so far
    \* ---- the OpTest parsers, the parameter-support parser and benchmark.py
    c_call,                 \* the call made: the operation, its arguments and the build
    c_out                   \* what the call returned or raised

batchVars == <<pc, todo, report_failure, validation_failed, attempted, exit_status,
               raised>>
dispatchVars == <<d_call, d_outcome>>
pytestVars == <<p_call, p_out>>
xunitVars == <<x_runs>>
jobVars == <<j_reports, j_tests>>
callVars == <<c_call, c_out>>
reportVars == <<pytestVars, xunitVars, jobVars, callVars>>
nonBatchVars == <<dispatchVars, reportVars>>
nonDispatchVars == <<batchVars, reportVars>>
vars == <<batchVars, dispatchVars, reportVars>>

\* Python's None.
None == "None"

\* ------------------------------------------------------------------------
\* Strings that the code inspects character by character are sequences of
\* one-character strings.
\* ------------------------------------------------------------------------

\* str.lower() on the characters the model's strings use.
LowerChar(c) ==
    CASE c = "A" -> "a"
      [] c = "F" -> "f"
      [] c = "K" -> "k"
      [] c = "O" -> "o"
      [] c = "P" -> "p"
      [] c = "S" -> "s"
      [] c = "X" -> "x"
      [] c = "M" -> "m"
      [] c = "B" -> "b"
      [] c = "U" -> "u"
      [] c = "I" -> "i"
      [] c = "L" -> "l"
      [] c = "D" -> "d"
      [] c = "E" -> "e"
      [] c = "R" -> "r"
      [] OTHER -> c

Lower(s) == [i \in 1..Len(s) |-> LowerChar(s[i])]

\* Python's `pat in s` for strings.
Contains(s, pat) ==
    \E i \in 0..(Len(s) - Len(pat)) : SubSeq(s, i + 1, i + Len(pat)) = pat

BuilderWord == <<"b", "u", "i", "l", "d", "e", "r">>

\* An optional string (Optional[str]): Python's None, or a string.
NoneStr == [none |-> TRUE, text |-> <<>>]
Str(s) == [none |-> FALSE, text |-> s]

\* Python's truth value of an optional string: None and "" are falsy.
Truthy(o) == ~o.none /\ o.text /= <<>>

\* What a call does: it returns a value or raises an exception.
Ret(v) == [kind |-> "return", value |-> v]
Raise(e) == [kind |-> "raise", exc |-> e]

\* ------------------------------------------------------------------------
\* Report files, by what the probes and the parsers read of them.
\*   ext      the extension of the path
\*   run      the basename starts with "run"
\*   xml      the content read as XML: no readable file, not well-formed,
\*            pytest-flavoured JUnit XML, or other JUnit XML
\*   card     the first testsuite carries a property named card
\*   json     the content read as JSON (JsonDocs)
\*   raises   the parsers whose parse raises on this content
\* ------------------------------------------------------------------------
XmlParsers == {"BuilderPytestParser", "PythonPytestParser", "PythonUnittestParser"}

\* JSON documents: state is how json.load ends; kind is the type of the
\* loaded value; hasKey is Python's `"parameter_support_tests" in data` where
\* that is defined; inner is the type of data["parameter_support_tests"];
\* innerHasResults is `"results" in` that value where it is defined.
JsonDoc(state, kind, hasKey, inner, innerHasResults) ==
    [state |-> state, kind |-> kind, hasKey |-> hasKey, inner |-> inner,
     innerHasResults |-> innerHasResults]

NotJson == JsonDoc("malformed", "none", FALSE, "none", FALSE)

JsonDocs ==
    { JsonDoc("unreadable", "none", FALSE, "none", FALSE),
      NotJson,
      JsonDoc("undecodable", "none", FALSE, "none", FALSE),
      JsonDoc("ok", "null", FALSE, "none", FALSE),
      JsonDoc("ok", "number", FALSE, "none", FALSE),
      JsonDoc("ok", "string", FALSE, "none", FALSE),
      JsonDoc("ok", "string", TRUE, "none", FALSE),
      JsonDoc("ok", "list", FALSE, "none", FALSE),
      JsonDoc("ok", "list", TRUE, "none", FALSE),
      JsonDoc("ok", "object", FALSE, "none", FALSE),
      JsonDoc("ok", "object", TRUE, "null", FALSE),
      JsonDoc("ok", "object", TRUE, "number", FALSE),
      JsonDoc("ok", "object", TRUE, "object", FALSE),
      JsonDoc("ok", "object", TRUE, "object", TRUE),
      JsonDoc("ok", "object", TRUE, "list", TRUE) }

File(ext, run, xml, card, json, raises) ==
    [ext |-> ext, run |-> run, xml |-> xml, card |-> card, json |-> json, raises |-> raises]

\* .xml paths: a missing or malformed file makes every XML parser's parse
\* raise; a well-formed one may still make any of them raise (a suite without
\* timestamp, a testcase without time, a record that fails validation in a
\* parser that does not catch it).
XmlFiles ==
    { File("xml", run, xml, FALSE, NotJson, XmlParsers) :
        run \in BOOLEAN, xml \in {"unreadable", "malformed"} }
    \cup { File("xml", run, "pytest", card, NotJson, raises) :
        run \in BOOLEAN, card \in BOOLEAN, raises \in SUBSET XmlParsers }
    \cup { File("xml", run, "xunit", FALSE, NotJson, raises) :
        run \in BOOLEAN, raises \in SUBSET XmlParsers }

\* .tar and .json paths hold no XML.
TarFiles == { File("tar", run, "malformed", FALSE, NotJson, XmlParsers) : run \in BOOLEAN }
JsonFiles == { File("json", run, "malformed", FALSE, json, XmlParsers) :
                 run \in BOOLEAN, json \in JsonDocs }

Files == XmlFiles \cup TarFiles \cup JsonFiles

\* ------------------------------------------------------------------------
\* The probes (can_parse) of the five parser variants.
\* ------------------------------------------------------------------------

\* junit_xml_utils.get_xml_file_root_element_tree: parses the file and
\* raises when there is no readable, well-formed XML document.
GetXmlFileRootElementTree(f) ==
    IF f.xml \in {"unreadable", "malformed"} THEN Raise("ParseError") ELSE Ret(f.xml)

\* junit_xml_utils.is_pytest_junit_xml: the root carries the pytest markers.
IsPytestJunitXml(f) == f.xml = "pytest"

\* PythonPytestParser.can_parse: the tree is read outside any try.
PytestCanParse(f) ==
    IF f.ext /= "xml" THEN Ret(FALSE)
    ELSE IF GetXmlFileRootElementTree(f).kind = "raise" THEN GetXmlFileRootElementTree(f)
    ELSE Ret(IsPytestJunitXml(f))

\* PythonUnittestParser.can_parse: the extension alone.
UnittestCanParse(f) == Ret(f.ext = "xml")

\* TTTorchModelTestsParser.can_parse: the basename alone.
TarCanParse(f) == Ret(f.run /\ f.ext = "tar")

\* BuilderPytestParser.can_parse: every exception becomes False.
BuilderCanParse(f) ==
    IF f.ext /= "xml" THEN Ret(FALSE)
    ELSE IF GetXmlFileRootElementTree(f).kind = "raise" THEN Ret(FALSE)
    ELSE Ret(IsPytestJunitXml(f) /\ f.card)

\* Python's `key in data` on a loaded JSON value: undefined (TypeError) on
\* None and on numbers.
JsonIn(kind, has) ==
    IF kind \in {"null", "number"} THEN Raise("TypeError") ELSE Ret(has)

\* ParameterSupportTestParser.can_parse: only JSONDecodeError, IOError and
\* KeyError are caught.
ParamSupportCanParse(f) ==
    IF f.ext /= "json" THEN Ret(FALSE)
    ELSE IF f.json.state = "unreadable" THEN Ret(FALSE)
    ELSE IF f.json.state = "undecodable" THEN Raise("UnicodeDecodeError")
    ELSE IF f.json.state = "malformed" THEN Ret(FALSE)
    ELSE LET first == JsonIn(f.json.kind, f.json.hasKey) IN
         IF first.kind = "raise" THEN first
         ELSE IF ~first.value THEN Ret(FALSE)
         ELSE IF f.json.kind /= "object" THEN Raise("AttributeError")
         ELSE JsonIn(f.json.inner, f.json.innerHasResults)

Parsers == XmlParsers \cup {"TTTorchModelTestsParser", "ParameterSupportTestParser"}

CanParse(P, f) ==
    CASE P = "PythonPytestParser" -> PytestCanParse(f)
      [] P = "PythonUnittestParser" -> UnittestCanParse(f)
      [] P = "TTTorchModelTestsParser" -> TarCanParse(f)
      [] P = "BuilderPytestParser" -> BuilderCanParse(f)
      [] P = "ParameterSupportTestParser" -> ParamSupportCanParse(f)

\* Parser.parse as parse_file sees it: the list the parser returns for the
\* file, or an exception.
Parse(P, f) ==
    IF P \in f.raises THEN Raise("Exception") ELSE Ret([parser |-> P, file |-> f])

\* ------------------------------------------------------------------------
\* test_parser.py: parse_file.
\* ------------------------------------------------------------------------

\* The empty list parse_file returns on its last line (no parser made it).
NoFile == File("none", FALSE, "unreadable", FALSE, NotJson, {})
EmptyList == [parser |-> "none", file |-> NoFile]

\* The list with its two parsers in the other order.
MutDefaultParsers == <<"PythonUnittestParser", "PythonPytestParser">>

\* The module-level list `parsers`.
DefaultParsers == <<"PythonPytestParser", "PythonUnittestParser">>

\* The loop over `parsers`: a probe is called outside the try, parse inside
\* it; after the loop the empty list is returned. calls is the sequence of
\* parser methods invoked so far.
RECURSIVE TryParsers(_, _, _)
TryParsers(ps, f, calls) ==
    IF ps = <<>> THEN [out |-> Ret(EmptyList), calls |-> calls]
    ELSE LET P == Head(ps)
             probe == CanParse(P, f)
             c1 == Append(calls, <<"can_parse", P>>)
             c2 == Append(c1, <<"parse", P>>)
         IN IF probe.kind = "raise" THEN [out |-> probe, calls |-> c1]
            ELSE IF ~probe.value THEN TryParsers(Tail(ps), f, c1)
            ELSE IF Parse(P, f).kind = "return" THEN [out |-> Parse(P, f), calls |-> c2]
            ELSE TryParsers(Tail(ps), f, c2)

\* The same test without lower().
MutIsBuilderJob(job_name) == Truthy(job_name) /\ Contains(job_name.text, BuilderWord)

\* `job_name and "builder" in job_name.lower()`.
IsBuilderJob(job_name) == Truthy(job_name) /\ Contains(Lower(job_name.text), BuilderWord)

TrunkBranch == "main"

ParseFile(f, job_name, git_branch) ==
    LET B == "BuilderPytestParser"
        c1 == <<<<"can_parse", B>>>>
        c2 == Append(c1, <<"parse", B>>)
    IN IF IsBuilderJob(job_name) /\ git_branch = TrunkBranch
       THEN IF BuilderCanParse(f).kind = "raise" THEN [out |-> BuilderCanParse(f), calls |-> c1]
            ELSE IF ~BuilderCanParse(f).value THEN TryParsers(DefaultParsers, f, c1)
            ELSE IF Parse(B, f).kind = "return" THEN [out |-> Parse(B, f), calls |-> c2]
            ELSE TryParsers(DefaultParsers, f, c2)
       ELSE TryParsers(DefaultParsers, f, <<>>)

\* ------------------------------------------------------------------------
\* Inputs of the dispatch: job names with what the caller means by them,
\* and branches.
\* ------------------------------------------------------------------------
JobNameCases ==
    { [name |-> NoneStr, builder |-> FALSE],
      [name |-> Str(<<>>), builder |-> FALSE],
      [name |-> Str(<<"t", "e", "s", "t">>), builder |-> FALSE],
      [name |-> Str(<<"b", "u", "i", "l", "d">>), builder |-> FALSE],
      [name |-> Str(<<"b", "u", "i", "l", "d", "e", "r">>), builder |-> TRUE],
      [name |-> Str(<<"r", "u", "n", "-", "B", "u", "i", "l", "d", "E", "R", "-", "1">>),
       builder |-> TRUE] }

JobNames == { c.name : c \in JobNameCases }

Branches == {None, "main", "Main", "feature"}

\* ------------------------------------------------------------------------
\* The batch's variables at rest, the dispatch's and the report parsers'.
\* ------------------------------------------------------------------------
ReportsIdle ==
    /\ p_call = [op |-> "none"]
    /\ p_out = [kind |-> "none"]
    /\ x_runs = <<>>
    /\ j_reports = <<>>
    /\ j_tests = <<>>
    /\ c_call = [op |-> "none"]
    /\ c_out = [kind |-> "none"]

BatchIdle ==
    /\ pc = "idle"
    /\ todo = [jobs |-> <<>>, bench |-> 0, files |-> 0]
    /\ report_failure = FALSE
    /\ validation_failed = FALSE
    /\ attempted = {}
    /\ exit_status = "running"
    /\ raised = "nothing"

NoCall == [op |-> "none", parser |-> "none", file |-> NoFile, job_name |-> NoneStr,
           git_branch |-> None]

DispatchIdle ==
    /\ d_call = NoCall
    /\ d_outcome = [out |-> Ret(EmptyList), calls |-> <<>>]

\* parse_file(filepath, job_name=..., git_branch=...). parse_file keeps no
\* state between calls, so a behaviour makes one call.
ParseFileCall ==
    /\ d_call.op = "none"
    /\ \E f \in Files, j \in JobNames, b \in Branches :
         /\ d_call' = [op |-> "parse_file", parser |-> "none", file |-> f, job_name |-> j,
                       git_branch |-> b]
         /\ d_outcome' = ParseFile(f, j, b)
    /\ UNCHANGED nonDispatchVars

\* P().can_parse(filepath), for each of the five parser variants
CanParseCall ==
    /\ d_call.op = "none"
    /\ \E P \in Parsers, f \in Files :
         /\ d_call' = [op |-> "can_parse", parser |-> P, file |-> f, job_name |-> NoneStr,
                       git_branch |-> None]
         /\ d_outcome' = [out |-> CanParse(P, f), calls |-> <<<<"can_parse", P>>>>]
    /\ UNCHANGED nonDispatchVars

InitDispatch == BatchIdle /\ DispatchIdle /\ ReportsIdle
NextDispatch == ParseFileCall \/ CanParseCall
SpecDispatch == InitDispatch /\ [][NextDispatch]_vars

\* ------------------------------------------------------------------------
\* Properties of the dispatch and of the probes.
\* ------------------------------------------------------------------------
Range(s) == { s[i] : i \in 1..Len(s) }

IsParseFileCall == d_call.op = "parse_file"
IsCanParseCall == d_call.op = "can_parse"

\* The probe of P accepts f; the probe accepts and the parse returns.
Accepts(P, f) == CanParse(P, f).kind = "return" /\ CanParse(P, f).value
Good(P, f) == Accepts(P, f) /\ Parse(P, f).kind = "return"

\* What the caller means by a builder job on the trunk branch.
MeansBuilder(j) == \E c \in JobNameCases : c.name = j /\ c.builder
BuilderEligible(j, b) == MeansBuilder(j) /\ b = "main"

\* The first position of order whose parser is good for f, 0 when none is.
FirstGood(order, f) ==
    LET goods == { i \in 1..Len(order) : Good(order[i], f) }
    IN IF goods = {} THEN 0 ELSE CHOOSE i \in goods : \A k \in goods : i <= k

\* The parser whose result parse_file is to return under a candidate order.
Expected(order, f) ==
    IF FirstGood(order, f) = 0 THEN "none" ELSE order[FirstGood(order, f)]

\* The calls made are the probes of the candidates in order, each accepted
\* probe followed by that candidate's parse, up to the first good candidate.
RECURSIVE ExpectedCalls(_, _)
ExpectedCalls(order, f) ==
    IF order = <<>> THEN <<>>
    ELSE LET P == Head(order) IN
         IF Good(P, f) THEN <<<<"can_parse", P>>, <<"parse", P>>>>
         ELSE IF Accepts(P, f)
              THEN <<<<"can_parse", P>>, <<"parse", P>>>> \o ExpectedCalls(Tail(order), f)
              ELSE <<<<"can_parse", P>>>> \o ExpectedCalls(Tail(order), f)

\* C3: for every file and every context parse_file returns a list and never
\* propagates an exception; it returns the empty list when no candidate's
\* probe accepts the file or every accepting candidate fails.
C3_ParseFileNeverRaises ==
    IsParseFileCall =>
        /\ d_outcome.out.kind = "return"
        /\ (\A P \in XmlParsers : ~Good(P, d_call.file))
               => d_outcome.out.value.parser = "none"

\* The order the claim C4 states: builder when eligible, pytest XML, generic
\* xUnit, tarred archive.
ClaimedOrder(j, b) ==
    (IF BuilderEligible(j, b) THEN <<"BuilderPytestParser">> ELSE <<>>)
    \o <<"PythonPytestParser", "PythonUnittestParser", "TTTorchModelTestsParser">>

\* The order without the tarred-archive parser.
CodeOrder(j, b) ==
    (IF BuilderEligible(j, b) THEN <<"BuilderPytestParser">> ELSE <<>>)
    \o <<"PythonPytestParser", "PythonUnittestParser">>

\* C4 (as stated): whenever parse_file returns, it returns the result of the
\* first candidate, in the order builder (when eligible), pytest XML, generic
\* xUnit, tarred archive, whose probe accepts the file and whose parse does
\* not raise; a file only the tarred-archive probe accepts is parsed by the
\* tarred-archive parser.
C4_OrderWithTarParser ==
    (IsParseFileCall /\ d_outcome.out.kind = "return") =>
        d_outcome.out.value.parser
            = Expected(ClaimedOrder(d_call.job_name, d_call.git_branch), d_call.file)

\* C4 (amended): whenever parse_file returns, the candidates are builder
\* (when eligible), pytest XML, generic xUnit, in that order and no other; it
\* probes them in that order, skips a candidate whose parse raises, and
\* returns the result of the first one whose probe accepts and whose parse
\* returns, or the empty list when there is none; the tarred-archive parser
\* is never probed nor invoked, so a file only its probe accepts yields the
\* empty list.
C4_OrderWithoutTarParser ==
    (IsParseFileCall /\ d_outcome.out.kind = "return") =>
        LET order == CodeOrder(d_call.job_name, d_call.git_branch) IN
        /\ d_outcome.out.value.parser = Expected(order, d_call.file)
        /\ d_outcome.calls = ExpectedCalls(order, d_call.file)
        /\ \A c \in Range(d_outcome.calls) : c[2] /= "TTTorchModelTestsParser"

\* C4 witness: a candidate's parse raised and the next candidate's result
\* was returned.
C4_Witness ==
    /\ IsParseFileCall
    /\ d_outcome.out.kind = "return"
    /\ <<"parse", "PythonPytestParser">> \in Range(d_outcome.calls)
    /\ d_outcome.out.value.parser = "PythonUnittestParser"

\* C5 (as stated): the builder parser is used exactly when the job name
\* contains "builder" (case-insensitive), the branch is "main" and the
\* builder probe accepts the file, and then its result is returned; when one
\* of the three fails its parse is never invoked.
C5_BuilderResultReturned ==
    IsParseFileCall =>
        LET all3 == /\ BuilderEligible(d_call.job_name, d_call.git_branch)
                    /\ Accepts("BuilderPytestParser", d_call.file)
        IN /\ all3 => /\ d_outcome.out.kind = "return"
                      /\ d_outcome.out.value.parser = "BuilderPytestParser"
           /\ ~all3 => <<"parse", "BuilderPytestParser">> \notin Range(d_outcome.calls)

\* C5 (amended): the builder parser's parse is invoked exactly when the three
\* conditions hold; its result is returned when that parse returns, and when
\* it raises parse_file falls back to the default parsers and returns what
\* they give.
C5_BuilderUsedUnlessItRaises ==
    IsParseFileCall =>
        LET all3 == /\ BuilderEligible(d_call.job_name, d_call.git_branch)
                    /\ Accepts("BuilderPytestParser", d_call.file)
            returns == Parse("BuilderPytestParser", d_call.file).kind = "return"
        IN /\ all3 <=> <<"parse", "BuilderPytestParser">> \in Range(d_outcome.calls)
           /\ (all3 /\ returns) =>
                 /\ d_outcome.out.kind = "return"
                 /\ d_outcome.out.value.parser = "BuilderPytestParser"
           /\ (all3 /\ ~returns) =>
                 /\ d_outcome.out.kind = "return"
                 /\ d_outcome.out.value.parser
                        = Expected(DefaultParsers, d_call.file)

\* C5 witness: the three conditions hold with a mixed-case job name and the
\* builder parser's result is returned.
C5_Witness ==
    /\ IsParseFileCall
    /\ BuilderEligible(d_call.job_name, d_call.git_branch)
    /\ Contains(d_call.job_name.text, <<"B", "u", "i", "l", "d", "E", "R">>)
    /\ d_outcome.out.kind = "return"
    /\ d_outcome.out.value.parser = "BuilderPytestParser"

\* The content a probe of P reads is unreadable or malformed.
BadContent(P, f) ==
    IF P \in XmlParsers THEN f.ext = "xml" /\ f.xml \in {"unreadable", "malformed"}
    ELSE IF P = "ParameterSupportTestParser"
         THEN f.ext = "json" /\ f.json.state \in {"unreadable", "undecodable", "malformed"}
         ELSE FALSE

\* C6: for every parser variant and every file path can_parse returns a
\* boolean and never raises, and it returns false for unreadable or malformed
\* content.
C6_CanParseNeverRaises ==
    IsCanParseCall =>
        /\ d_outcome.out.kind = "return"
        /\ d_outcome.out.value \in BOOLEAN
        /\ BadContent(d_call.parser, d_call.file) => d_outcome.out.value = FALSE

\* ------------------------------------------------------------------------
\* shared.py: the process-wide failure flag.
\* ------------------------------------------------------------------------

\* failure_happened(): the value of the module global report_failure after
\* the call. The body `report_failure = True` has no global statement, so it
\* binds a name local to the function and the module global keeps its value.
FailureHappened(flag) == flag

\* is_failure(): reads the module global.
IsFailure(flag) == flag

\* ------------------------------------------------------------------------
\* generate_data.py: the batch. The artifacts directory holds, for each job
\* of the workflow, some XML reports, and some benchmark JSON reports.
\* ------------------------------------------------------------------------
MaxJobs == 2
MaxReports == 2
MaxBench == 2

Phases == {"pipeline", "benchmark", "optest"}

SeqsUpTo(S, n) == UNION { [1..k -> S] : k \in 0..n }

RECURSIVE Sum(_)
Sum(s) == IF s = <<>> THEN 0 ELSE Head(s) + Sum(Tail(s))

\* The XML reports of a run: a pytest report, a generic xUnit report, a
\* well-formed report no parser gets through, a malformed file; invalid says
\* that a testcase of the report makes a record that fails schema validation.
BatchReports ==
    { [file |-> f, invalid |-> v] :
        f \in { File("xml", FALSE, "pytest", FALSE, NotJson, {}),
                File("xml", FALSE, "xunit", FALSE, NotJson, {}),
                File("xml", FALSE, "pytest", FALSE, NotJson, XmlParsers),
                File("xml", FALSE, "malformed", FALSE, NotJson, XmlParsers) },
        v \in BOOLEAN }

BatchJobNames == { Str(<<"t", "e", "s", "t">>), Str(<<"b", "u", "i", "l", "d", "e", "r">>) }

\* What a benchmark report is to create_json_from_report: mapped to runs,
\* mapped to a run that fails validation, naming a job the pipeline does not
\* have, or not loadable as JSON.
BenchKinds == {"ok", "invalid", "no_job", "malformed"}

InitBatch ==
    /\ pc = "main"
    /\ todo \in { [jobs |-> js, bench |-> n, files |-> Sum(js) + n] :
                    js \in SeqsUpTo(0..MaxReports, MaxJobs), n \in 0..MaxBench }
    /\ report_failure = FALSE
    /\ validation_failed = FALSE
    /\ attempted = {}
    /\ exit_status = "running"
    /\ raised = "nothing"
    /\ DispatchIdle
    /\ ReportsIdle

\* An exception nobody catches ends the process with a non-zero exit code.
Crash(statement) ==
    /\ pc' = "done"
    /\ exit_status' = "error"
    /\ raised' = statement

\* The run goes on.
GoOn(next) ==
    /\ pc' = next
    /\ exit_status' = exit_status
    /\ raised' = raised

\* create_cicd_json_for_data_analysis, up to the job loop: the two GitHub
\* JSON files are opened and read outside any try.
LoadWorkflow ==
    /\ pc = "main"
    /\ attempted' = attempted \cup {"pipeline"}
    /\ \E loaded \in BOOLEAN :
         IF loaded THEN GoOn("jobs") ELSE Crash("load workflow")
    /\ UNCHANGED <<todo, report_failure, validation_failed, nonBatchVars>>

\* The position of the first report whose parse_file call raises, n + 1 when
\* none does.
FirstRaise(outcomes) ==
    LET n == Len(outcomes)
        bad == { i \in 1..n : outcomes[i].out.kind = "raise" }
    IN IF bad = {} THEN n + 1 ELSE CHOOSE i \in bad : \A k \in bad : i <= k

\* One iteration of the job loop of create_cicd_json_for_data_analysis:
\* parse_file on each report of the job (without git_branch), then Job(...)
\* under `except ValidationError: failure_happened()`. A pytest record that
\* fails validation calls failure_happened() in the parser and leaves None in
\* the tests, which Job(...) rejects.
ProcessJob ==
    /\ pc = "jobs"
    /\ todo.jobs /= <<>>
    /\ \E j \in BatchJobNames, valid \in BOOLEAN,
          reports \in [1..Head(todo.jobs) -> BatchReports] :
         LET outcomes == [i \in 1..Len(reports) |-> ParseFile(reports[i].file, j, None)]
             stop == FirstRaise(outcomes)
             noneInTests ==
                 \E i \in 1..(stop - 1) :
                     /\ outcomes[i].out.value.parser = "PythonPytestParser"
                     /\ reports[i].invalid
             jobRejected == ~valid \/ noneInTests
         IN IF stop <= Len(reports)
            THEN /\ Crash("parse_file")
                 /\ report_failure' =
                        IF noneInTests THEN FailureHappened(report_failure) ELSE report_failure
                 /\ validation_failed' = (validation_failed \/ noneInTests)
                 /\ todo' = todo
            ELSE /\ GoOn(pc)
                 /\ report_failure' =
                        IF jobRejected THEN FailureHappened(report_failure) ELSE report_failure
                 /\ validation_failed' = (validation_failed \/ jobRejected)
                 /\ todo' = [todo EXCEPT !.jobs = Tail(@)]
    /\ UNCHANGED <<attempted, nonBatchVars>>

\* After the job loop: Pipeline(...) and the write of the pipeline JSON, both
\* outside any try.
WritePipeline ==
    /\ pc = "jobs"
    /\ todo.jobs = <<>>
    /\ \E written \in BOOLEAN :
         IF written THEN GoOn("benchmark") ELSE Crash("write pipeline")
    /\ UNCHANGED <<todo, report_failure, validation_failed, attempted, nonBatchVars>>

\* One iteration of the report loop of create_json_from_report: open and
\* json.load outside any try, then _map_benchmark_data, whose mappers call
\* failure_happened() on a ValidationError.
BenchmarkReport ==
    /\ pc = "benchmark"
    /\ todo.bench > 0
    /\ attempted' = attempted \cup {"benchmark"}
    /\ \E kind \in BenchKinds :
         IF kind = "malformed"
         THEN /\ Crash("load benchmark report")
              /\ UNCHANGED <<todo, report_failure, validation_failed>>
         ELSE /\ GoOn(pc)
              /\ todo' = [todo EXCEPT !.bench = @ - 1]
              /\ report_failure' =
                     IF kind = "invalid" THEN FailureHappened(report_failure)
                     ELSE report_failure
              /\ validation_failed' = (validation_failed \/ kind = "invalid")
    /\ UNCHANGED nonBatchVars

\* create_benchmark_jsons returns.
BenchmarkDone ==
    /\ pc = "benchmark"
    /\ todo.bench = 0
    /\ attempted' = attempted \cup {"benchmark"}
    /\ GoOn("optest")
    /\ UNCHANGED <<todo, report_failure, validation_failed, nonBatchVars>>

\* create_optest_json: create_optest_reports asks
\* cicd.get_github_job_id_to_test_reports for the extensions [".tar", ".xml"],
\* and that function evaluates file.endswith(extension) for each file found:
\* with a list for extension str.endswith raises TypeError, outside any try.
\* Without any file the mapping is empty and the function returns no report.
CreateOptestJson ==
    /\ pc = "optest"
    /\ attempted' = attempted \cup {"optest"}
    /\ IF todo.files > 0 THEN Crash("find optest reports") ELSE GoOn("check")
    /\ UNCHANGED <<todo, report_failure, validation_failed, nonBatchVars>>

\* The last statement of __main__: `if is_failure(): raise Exception(...)`.
CheckFailure ==
    /\ pc = "check"
    /\ IF IsFailure(report_failure)
       THEN Crash("failure flag")
       ELSE pc' = "done" /\ exit_status' = "ok" /\ raised' = raised
    /\ UNCHANGED <<todo, report_failure, validation_failed, attempted, nonBatchVars>>

Init == InitBatch
Next ==
    \/ LoadWorkflow
    \/ ProcessJob
    \/ WritePipeline
    \/ BenchmarkReport
    \/ BenchmarkDone
    \/ CreateOptestJson
    \/ CheckFailure
Spec == Init /\ [][Next]_vars

\* ------------------------------------------------------------------------
\* Properties of the batch.
\* ------------------------------------------------------------------------

\* C1: if a schema-validation failure occurred during the batch, is_failure()
\* is true when the batch consults it at its end and the batch ends with an
\* error.
C1_FailureSurfaces ==
    /\ (pc = "check" /\ validation_failed) => IsFailure(report_failure)
    /\ (pc = "done" /\ validation_failed) => exit_status = "error"

\* C1 witness: a record failed validation and the batch ran to its end.
C1_Witness ==
    /\ pc = "done"
    /\ validation_failed
    /\ attempted = Phases

\* The statements outside the claim's subject (reports, jobs, parsers and
\* mappers): reading the workflow's own JSON and writing the pipeline record.
Glue == {"load workflow", "write pipeline"}

\* C2: the batch attempts all three phases and every file and job, and it
\* ends with an error only if the failure flag was set: no report, job,
\* parser or mapper ends it earlier. (Stated for the runs that neither the
\* glue nor a raising probe inside parse_file, the subject of C3, ended.)
C2_AllPhasesAttempted ==
    (pc = "done" /\ raised \notin Glue \cup {"parse_file"}) =>
        /\ attempted = Phases
        /\ todo.jobs = <<>>
        /\ todo.bench = 0
        /\ exit_status = "error" => IsFailure(report_failure)

\* C2 witness: the batch ended.
C2_Witness == pc = "done" /\ attempted = Phases /\ exit_status = "ok"

\* ------------------------------------------------------------------------
\* Timestamps. A datetime is the number of its instant; a timestamp's text
\* is its instant and the format it is written in.
\* ------------------------------------------------------------------------
NoneTs == [none |-> TRUE, t |-> 0]
Ts(t) == [none |-> FALSE, t |-> t]

\* utils.parse_timestamp: the formats it tries, in its order.
SupportedFormats ==
    <<"%Y-%m-%dT%H:%M:%S.%f%z", "%Y-%m-%dT%H:%M:%S.%f", "%Y-%m-%dT%H:%M:%S%z",
      "%Y-%m-%dT%H:%M:%S">>

\* A format parse_timestamp does not try (a space between date and time).
OtherFormat == "%Y-%m-%d %H:%M:%S"

RawTs(fmt, t) == [fmt |-> fmt, t |-> t]

\* utils.parse_timestamp: the datetime, or None if no format matches.
ParseTimestamp(raw) ==
    IF \E i \in 1..Len(SupportedFormats) : SupportedFormats[i] = raw.fmt
    THEN Ts(raw.t)
    ELSE NoneTs

\* ------------------------------------------------------------------------
\* Python values that a property's text evaluates to, by their type.
\* ------------------------------------------------------------------------
NoneValue == [type |-> "NoneType"]
DictValue == [type |-> "dict"]
ListValue == [type |-> "list"]

\* ast.literal_eval(html.unescape(text)) on the texts the model's reports
\* hold: "{'a': 1}", "['a']" and "a b".
LiteralEval(text) ==
    CASE text = "{'a': 1}" -> Ret(DictValue)
      [] text = "['a']" -> Ret(ListValue)
      [] OTHER -> Raise("SyntaxError")

\* ------------------------------------------------------------------------
\* pydantic_models.Test. Whether the Optional fields declared without a
\* default may be left out depends on the pydantic the action is installed
\* with (`strict`: they may not).
\* ------------------------------------------------------------------------
OptionalWithoutDefault == {"frontend", "model_name", "op_name", "framework_op_name", "op_kind"}

\* The entry a parser's list holds where the code put None.
NoneTest == [none |-> TRUE]

\* Test(**kw): the record, or ValidationError. `supplied` is the set of
\* Optional fields without default that the call passes.
Test(kw, supplied, strict) ==
    IF /\ ~kw.test_start_ts.none
       /\ ~kw.test_end_ts.none
       /\ kw.config.type \in {"NoneType", "dict"}
       /\ kw.tags.type \in {"NoneType", "dict"}
       /\ strict => OptionalWithoutDefault \subseteq supplied
    THEN Ret(kw)
    ELSE Raise("ValidationError")

\* ------------------------------------------------------------------------
\* parsers/python_pytest_parser.py
\* ------------------------------------------------------------------------

\* The testcase's <skipped>, <failure> and <error> children.
GetPytestTestcaseIsSkipped(testcase) == "skipped" \in testcase.children
GetPytestTestcaseIsFailed(testcase) == "failure" \in testcase.children
GetPytestTestcaseIsError(testcase) == "error" \in testcase.children

\* The messages of those children.
GetPytestFailureMessage(testcase) == "failure message"
GetPytestErrorMessage(testcase) == "error message"
GetPytestSkippedMessage(testcase) == "skipped message"

\* The testcase's <property> elements, as a dict from name to value.
GetPytestTestcaseProperties(testcase) == testcase.properties

\* is_valid_testcase_
IsValidTestcase(testcase) == ~testcase.name.none /\ ~testcase.classname.none

\* name.split("[")[0]
SplitBracket(s) ==
    IF \E i \in 1..Len(s) : s[i] = "["
    THEN SubSeq(s, 1, (CHOOSE i \in 1..Len(s) : s[i] = "[" /\ \A j \in 1..(i - 1) : s[j] /= "[") - 1)
    ELSE s

\* classname.replace(".", "/")
ReplaceDots(s) == [i \in 1..Len(s) |-> IF s[i] = "." THEN "/" ELSE s[i]]

Categories == <<<<"m", "o", "d", "e", "l", "s">>, <<"t", "t", "n", "n">>,
                <<"t", "t", "_", "e", "a", "g", "e", "r">>,
                <<"t", "t", "_", "m", "e", "t", "a", "l">>>>

\* get_category_from_pytest_testcase_
GetCategoryFromPytestTestcase(testcase) ==
    IF \E i \in 1..Len(Categories) : Contains(testcase.classname.text, Categories[i])
    THEN Categories[CHOOSE i \in 1..Len(Categories) :
                      /\ Contains(testcase.classname.text, Categories[i])
                      /\ \A j \in 1..(i - 1) : ~Contains(testcase.classname.text, Categories[j])]
    ELSE <<"o", "t", "h", "e", "r">>

\* The text of a property evaluated as the code does for tags and config:
\* None when the property is missing or its text does not evaluate.
EvalProperty(properties, key) ==
    IF key \notin properties.has
    THEN NoneValue
    ELSE LET v == LiteralEval(properties[key])
         IN IF v.kind = "return" THEN v.value ELSE NoneValue

\* get_pydantic_test_from_pytest_testcase_: the Test, or None after a
\* validation error.
GetPydanticTestFromPytestTestcase(testcase, default_timestamp, strict) ==
    LET skipped == GetPytestTestcaseIsSkipped(testcase)
        failed == GetPytestTestcaseIsFailed(testcase)
        error == GetPytestTestcaseIsError(testcase)
        if_failed == IF failed THEN GetPytestFailureMessage(testcase) ELSE None
        if_error == IF error THEN GetPytestErrorMessage(testcase) ELSE if_failed
        message == IF skipped THEN GetPytestSkippedMessage(testcase) ELSE if_error
        properties == GetPytestTestcaseProperties(testcase)
        own == /\ ~(skipped \/ error)
               /\ "start_timestamp" \in properties.has
               /\ "end_timestamp" \in properties.has
        filepath == ReplaceDots(testcase.classname.text) \o <<".", "p", "y">>
        made == Test([none |-> FALSE,
                      test_start_ts |-> IF own THEN ParseTimestamp(properties.start_timestamp)
                                        ELSE default_timestamp,
                      test_end_ts |-> IF own THEN ParseTimestamp(properties.end_timestamp)
                                      ELSE default_timestamp,
                      test_case_name |-> SplitBracket(testcase.name.text),
                      filepath |-> filepath,
                      category |-> GetCategoryFromPytestTestcase(testcase),
                      error_message |-> message,
                      success |-> ~(failed \/ error),
                      skipped |-> skipped,
                      full_test_name |-> filepath \o <<":", ":">> \o testcase.name.text,
                      config |-> EvalProperty(properties, "config"),
                      tags |-> EvalProperty(properties, "tags")],
                     {}, strict)
    IN IF made.kind = "return" THEN made.value ELSE NoneTest

\* The list built by the loop of get_tests over the testcases from the i-th on.
RECURSIVE PytestLoop(_, _, _, _)
PytestLoop(testcases, i, default_timestamp, strict) ==
    IF i > Len(testcases)
    THEN <<>>
    ELSE (IF IsValidTestcase(testcases[i])
          THEN <<GetPydanticTestFromPytestTestcase(testcases[i], default_timestamp, strict)>>
          ELSE <<>>)
         \o PytestLoop(testcases, i + 1, default_timestamp, strict)

\* get_tests(filepath) of the pytest parser on a report's first testsuite.
PytestGetTests(testsuite, strict) ==
    IF ~testsuite.has_timestamp
    THEN Raise("KeyError")
    ELSE Ret(PytestLoop(testsuite.testcases, 1, ParseTimestamp(testsuite.timestamp), strict))

\* ------------------------------------------------------------------------
\* The pytest reports the parser is run on.
\* ------------------------------------------------------------------------
MaxCases == 2

PytestName == <<"t", "[", "1", "]">>
PytestClassname == <<"m", ".", "t">>

Properties(has, start_fmt, tags, config) ==
    [has |-> has, start_timestamp |-> RawTs(start_fmt, 2),
     end_timestamp |-> RawTs(SupportedFormats[1], 3), tags |-> tags, config |-> config,
     error_message |-> "custom message"]

NoProperties == Properties({}, SupportedFormats[1], "", "")

\* Properties that bear on the timestamps and on the message.
PropertyBags ==
    { NoProperties,
      Properties({"start_timestamp", "end_timestamp"}, SupportedFormats[2], "", ""),
      Properties({"start_timestamp", "end_timestamp"}, OtherFormat, "", ""),
      Properties({"error_message"}, SupportedFormats[1], "", "") }

\* Properties that bear on tags and config.
LiteralBags ==
    { Properties({"tags"}, SupportedFormats[1], "{'a': 1}", ""),
      Properties({"tags"}, SupportedFormats[1], "['a']", ""),
      Properties({"tags"}, SupportedFormats[1], "a b", ""),
      Properties({"config"}, SupportedFormats[1], "", "['a']") }

\* The <skipped>, <failure> and <error> children a testcase has.
Outcomes == {{}, {"failure"}, {"error"}, {"skipped"}, {"failure", "error"}}

\* <testcase> elements: those lacking a name or a classname, and those
\* having both.
PytestTestcases ==
    { [name |-> n, classname |-> c, children |-> {}, properties |-> NoProperties] :
        n \in {NoneStr, Str(PytestName)}, c \in {NoneStr, Str(PytestClassname)} }
    \cup
    { [name |-> Str(PytestName), classname |-> Str(PytestClassname), children |-> o,
       properties |-> b] : o \in Outcomes, b \in PropertyBags }
    \cup
    { [name |-> Str(PytestName), classname |-> Str(PytestClassname), children |-> {},
       properties |-> b] : b \in LiteralBags }

\* The first <testsuite> of a report: its timestamp attribute (missing, in
\* the format pytest writes, or in another one) and its testcases.
SuiteTimestamps ==
    { [has |-> FALSE, raw |-> RawTs(SupportedFormats[2], 1)],
      [has |-> TRUE, raw |-> RawTs(SupportedFormats[2], 1)],
      [has |-> TRUE, raw |-> RawTs(OtherFormat, 1)] }

PytestSuites ==
    { [has_timestamp |-> st.has, timestamp |-> st.raw, testcases |-> tcs] :
        st \in SuiteTimestamps, tcs \in SeqsUpTo(PytestTestcases, MaxCases) }

\* PythonPytestParser().parse(filepath): get_tests on the report, in a build
\* with either treatment of the Optional fields. The parser keeps no state
\* between calls, so a behaviour makes one call.
PytestParse ==
    /\ p_call.op = "none"
    /\ \E testsuite \in PytestSuites, strict \in BOOLEAN :
         /\ p_call' = [op |-> "get_tests", testsuite |-> testsuite, strict |-> strict]
         /\ p_out' = PytestGetTests(testsuite, strict)
    /\ UNCHANGED <<batchVars, dispatchVars, xunitVars, jobVars, callVars>>

InitPytest == BatchIdle /\ DispatchIdle /\ ReportsIdle
NextPytest == PytestParse
SpecPytest == InitPytest /\ [][NextPytest]_vars

\* ------------------------------------------------------------------------
\* Properties of the pytest parser.
\* ------------------------------------------------------------------------
IsPytestRun == p_call.op = "get_tests"

\* The report is one pytest writes: its testsuite has a timestamp in
\* pytest's format.
ValidPytestReport ==
    /\ p_call.testsuite.has_timestamp
    /\ ~ParseTimestamp(p_call.testsuite.timestamp).none

ValidTestcases == SelectSeq(p_call.testsuite.testcases, IsValidTestcase)

\* C7: on a valid pytest report, the list the pytest parser returns holds
\* exactly one Test for each testcase that has a name and a classname, in
\* document order, and no entry of it is None.
C7_OneTestPerTestcase ==
    (IsPytestRun /\ ValidPytestReport) =>
        /\ p_out.kind = "return"
        /\ Len(p_out.value) = Len(ValidTestcases)
        /\ \A i \in 1..Len(p_out.value) : ~p_out.value[i].none

\* C7 in a build where the Optional fields may be left out.
C7_OneTestPerTestcaseLenient ==
    (IsPytestRun /\ ValidPytestReport /\ ~p_call.strict) => C7_OneTestPerTestcase

\* C7 witness: the parser returned a list on a valid report with a testcase
\* that has both attributes.
C7_Witness ==
    /\ IsPytestRun
    /\ ValidPytestReport
    /\ Len(ValidTestcases) > 0
    /\ p_out.kind = "return"

\* ------------------------------------------------------------------------
\* parsers/python_unittest_parser.py. A report is its testcases in document
\* order, the positions after which a new <testsuite> starts, and the
\* timestamp attribute of the first testsuite. Timestamps are ISO texts of
\* one format, which Python's max() on strings orders as their instants.
\* ------------------------------------------------------------------------

\* The number of testcases of the report's first testsuite.
FirstSuiteSize(report) ==
    IF report.cuts = {}
    THEN Len(report.testcases)
    ELSE CHOOSE c \in report.cuts : \A d \in report.cuts : c <= d

\* xmltodict gives a dict for a single child element and a list for several:
\* testsuites[0]["testcase"][0] raises KeyError on a dict.
FirstTestcaseIndexable(report) == FirstSuiteSize(report) > 1

\* max() of two timestamps.
MaxTs(a, b) == IF a.t >= b.t THEN a ELSE b

\* add_time(timestamp_iso, duration_seconds)
AddTime(timestamp, duration) == Ts(timestamp.t + duration)

\* The same without the testsuite's timestamp.
MutAnchor(report, now) ==
    IF report.testcases[1].has_timestamp THEN NoneTs ELSE Ts(now)

\* previous_test_end_ts before the loop: None if the first testcase has a
\* timestamp, else the first testsuite's timestamp, else the current time.
Anchor(report, now) ==
    IF report.testcases[1].has_timestamp
    THEN NoneTs
    ELSE IF report.has_timestamp THEN Ts(report.timestamp) ELSE Ts(now)

\* The list built by the loops of get_tests over the testcases from the
\* i-th on, with the cursor previous_test_end_ts. The model's testcases have
\* no <skipped>, <error> or <failure> child.
RECURSIVE XunitLoop(_, _, _)
XunitLoop(testcases, i, previous_test_end_ts) ==
    IF i > Len(testcases)
    THEN <<>>
    ELSE LET testcase == testcases[i]
             given == IF testcase.has_timestamp THEN Ts(testcase.timestamp)
                      ELSE previous_test_end_ts
             test_start_ts == IF ~previous_test_end_ts.none
                              THEN MaxTs(given, previous_test_end_ts)
                              ELSE given
             test_end_ts == AddTime(test_start_ts, testcase.time)
             file == IF testcase.file.none THEN <<>> ELSE testcase.file.text
             made == Test([none |-> FALSE,
                           test_start_ts |-> test_start_ts,
                           test_end_ts |-> test_end_ts,
                           test_case_name |-> testcase.name,
                           filepath |-> file,
                           category |-> testcase.classname,
                           error_message |-> None,
                           success |-> TRUE,
                           skipped |-> FALSE,
                           full_test_name |-> file \o <<":", ":">> \o testcase.name,
                           config |-> NoneValue,
                           tags |-> NoneValue],
                          OptionalWithoutDefault, TRUE)
         IN <<made.value>> \o XunitLoop(testcases, i + 1, test_end_ts)

\* get_tests(test_report_path) of the generic xUnit parser, run when the
\* clock reads `now`.
XunitGetTests(report, now) ==
    IF ~FirstTestcaseIndexable(report)
    THEN Raise("KeyError")
    ELSE Ret(XunitLoop(report.testcases, 1, Anchor(report, now)))

\* ------------------------------------------------------------------------
\* The xUnit reports the parser is run on, and the clock.
\* ------------------------------------------------------------------------
MaxRuns == 2

Durations == {0, 1}
XunitNames == {<<"a">>, <<"b">>}
SuiteInstant == 1
CaseInstant == 2
ClockReadings == {5, 6}

XunitTestcase(has_timestamp, time, name, file) ==
    [has_timestamp |-> has_timestamp, timestamp |-> CaseInstant, time |-> time,
     name |-> name, classname |-> <<"c">>, file |-> file]

XunitTestcases ==
    { XunitTestcase(h, d, n, NoneStr) : h \in BOOLEAN, d \in Durations, n \in XunitNames }

XunitReports ==
    { r \in [has_timestamp : BOOLEAN, timestamp : {SuiteInstant},
              testcases : SeqsUpTo(XunitTestcases, MaxCases) \ {<<>>},
              cuts : SUBSET (1..MaxCases)] :
        \A c \in r.cuts : c < Len(r.testcases) }

\* PythonUnittestParser().parse(filepath) on a report.
XunitParse ==
    /\ x_runs = <<>>
    /\ \E report \in XunitReports, now \in ClockReadings :
         x_runs' = <<[report |-> report, now |-> now, out |-> XunitGetTests(report, now)]>>
    /\ UNCHANGED <<batchVars, dispatchVars, pytestVars, jobVars, callVars>>

\* The parser run again on the file of the last run, the clock having gone on.
XunitReparse ==
    /\ x_runs /= <<>>
    /\ Len(x_runs) < MaxRuns
    /\ LET last == x_runs[Len(x_runs)]
       IN \E now \in ClockReadings :
            /\ now >= last.now
            /\ x_runs' = Append(x_runs, [report |-> last.report, now |-> now,
                                          out |-> XunitGetTests(last.report, now)])
    /\ UNCHANGED <<batchVars, dispatchVars, pytestVars, jobVars, callVars>>

InitXunit == BatchIdle /\ DispatchIdle /\ ReportsIdle
NextXunit == XunitParse \/ XunitReparse
SpecXunit == InitXunit /\ [][NextXunit]_vars

\* ------------------------------------------------------------------------
\* Properties of the generic xUnit parser.
\* ------------------------------------------------------------------------
XunitReturned(run) == run.out.kind = "return"

NoCaseTimestamps(report) ==
    \A i \in 1..Len(report.testcases) : ~report.testcases[i].has_timestamp

\* The clock is not read: the first testcase or the first testsuite carries
\* a timestamp.
Anchored(report) == report.testcases[1].has_timestamp \/ report.has_timestamp

\* C9: for testcases lacking individual timestamps, the start timestamps the
\* xUnit parser gives strictly increase across the suite and across the
\* suites of the file: each test starts no earlier than the previous test
\* ended and at another instant than every earlier test, whatever the
\* durations.
C9_StartsStrictlyIncrease ==
    \A k \in 1..Len(x_runs) :
        (XunitReturned(x_runs[k]) /\ NoCaseTimestamps(x_runs[k].report)) =>
            LET tests == x_runs[k].out.value
            IN \A i, j \in 1..Len(tests) :
                 i < j =>
                    /\ tests[i].test_start_ts.t < tests[j].test_start_ts.t
                    /\ tests[i].test_end_ts.t <= tests[j].test_start_ts.t

\* C9 witness: the parser returned tests for testcases without timestamps,
\* one of them of duration 0.
C9_Witness ==
    \E k \in 1..Len(x_runs) :
        /\ XunitReturned(x_runs[k])
        /\ NoCaseTimestamps(x_runs[k].report)
        /\ \E i \in 1..Len(x_runs[k].report.testcases) : x_runs[k].report.testcases[i].time = 0

\* C10 as stated: two runs of the xUnit parser on the same file give the
\* same outcome, the same start and end timestamps for every test, also
\* when neither the testcases nor the testsuite carry a timestamp.
C10_ReparseIdentical ==
    \A k, l \in 1..Len(x_runs) :
        x_runs[k].report = x_runs[l].report => x_runs[k].out = x_runs[l].out

\* C10 amended: two runs of the xUnit parser on the same file give the same
\* outcome when the first testcase or the first testsuite of the file
\* carries a timestamp.
C10_ReparseIdenticalWhenAnchored ==
    \A k, l \in 1..Len(x_runs) :
        (x_runs[k].report = x_runs[l].report /\ Anchored(x_runs[k].report)) =>
            x_runs[k].out = x_runs[l].out

\* C10 witness: a file whose testcases carry no timestamp and whose
\* testsuite does, parsed twice at different times, with tests returned.
C10_Witness ==
    \E k, l \in 1..Len(x_runs) :
        /\ k < l
        /\ x_runs[k].now < x_runs[l].now
        /\ NoCaseTimestamps(x_runs[k].report)
        /\ x_runs[k].report.has_timestamp
        /\ XunitReturned(x_runs[k])
        /\ XunitReturned(x_runs[l])
        /\ Len(x_runs[l].out.value) > 1

\* ------------------------------------------------------------------------
\* cicd.py: the records of one job. create_cicd_json_for_data_analysis
\* passes each report of the job to parse_file and extends the job's list
\* `tests` by what parse_file returns. The reports here are pytest and xUnit
\* reports that the respective parser's probe accepts.
\* ------------------------------------------------------------------------
JobXunitTestcases ==
    { XunitTestcase(FALSE, d, <<"a">>, f) : d \in Durations, f \in {NoneStr, Str(<<"f">>)} }

JobXunitReports ==
    { [kind |-> "xunit",
       doc |-> [has_timestamp |-> TRUE, timestamp |-> SuiteInstant,
                testcases |-> <<c1, c2>>, cuts |-> {}]] :
        c1 \in JobXunitTestcases, c2 \in JobXunitTestcases }

JobPytestReports ==
    { [kind |-> "pytest",
       doc |-> [has_timestamp |-> TRUE, timestamp |-> RawTs(SupportedFormats[2], 1),
                testcases |-> <<[name |-> Str(PytestName),
                                 classname |-> Str(PytestClassname),
                                 children |-> o, properties |-> b]>>]] :
        o \in {{}, {"skipped"}},
        b \in {NoProperties,
               Properties({"start_timestamp", "end_timestamp"}, SupportedFormats[2], "", "")} }

JobReports == JobXunitReports \cup JobPytestReports

\* parse_file on a report of the job: the list of the parser whose probe
\* accepts the report, or [] if its parse raises.
ParseReport(report, strict, now) ==
    LET out == IF report.kind = "pytest"
               THEN PytestGetTests(report.doc, strict)
               ELSE XunitGetTests(report.doc, now)
    IN IF out.kind = "return" THEN out.value ELSE <<>>

\* One turn of the loop over the job's reports: tests.extend(parse_file(...)).
JobReport ==
    /\ Len(j_reports) < MaxReports
    /\ \E report \in JobReports, strict \in BOOLEAN, now \in ClockReadings :
         /\ \A i \in 1..Len(j_reports) : j_reports[i].strict = strict
         /\ j_reports' = Append(j_reports, [report |-> report, strict |-> strict])
         /\ j_tests' = j_tests \o ParseReport(report, strict, now)
    /\ UNCHANGED <<batchVars, dispatchVars, pytestVars, xunitVars, callVars>>

InitJob == BatchIdle /\ DispatchIdle /\ ReportsIdle
NextJob == JobReport
SpecJob == InitJob /\ [][NextJob]_vars

\* ------------------------------------------------------------------------
\* Properties of the records of one job.
\* ------------------------------------------------------------------------

\* C8: no two records collected for one job share both full_test_name and
\* test_start_ts, also when they come from several reports of the job and
\* whichever parser made them.
C8_UniquePerJob ==
    \A i, j \in 1..Len(j_tests) :
        (i < j /\ ~j_tests[i].none /\ ~j_tests[j].none) =>
            ~(/\ j_tests[i].full_test_name = j_tests[j].full_test_name
              /\ j_tests[i].test_start_ts = j_tests[j].test_start_ts)

\* C8 witness: two reports of the job were parsed and gave records.
C8_Witness ==
    /\ Len(j_reports) = 2
    /\ j_reports[1].report.kind /= j_reports[2].report.kind
    /\ Len(j_tests) >= 3
    /\ \A i \in 1..Len(j_tests) : ~j_tests[i].none

\* ------------------------------------------------------------------------
\* Properties of the pytest parser's error_message.
\* ------------------------------------------------------------------------

\* The i-th entry of the returned list is a Test.
PytestMade(i) == p_out.kind = "return" /\ i <= Len(p_out.value) /\ ~p_out.value[i].none

HasCustomMessage(testcase) == "error_message" \in testcase.properties.has

\* The message that the precedence property > failure > error > skip gives.
ClaimedMessage(testcase) ==
    IF HasCustomMessage(testcase) THEN testcase.properties.error_message
    ELSE IF "failure" \in testcase.children THEN "failure message"
    ELSE IF "error" \in testcase.children THEN "error message"
    ELSE IF "skipped" \in testcase.children THEN "skipped message"
    ELSE None

\* C11: the Test's error_message is the highest-ranked present one of: the
\* error_message property, the failure message, the error message, the skip
\* message; and it is None when none of them is present.
C11_MessagePrecedence ==
    IsPytestRun =>
        \A i \in 1..Len(ValidTestcases) :
            PytestMade(i) => p_out.value[i].error_message = ClaimedMessage(ValidTestcases[i])

\* C11 witness: a Test was made for a testcase with a failure and an error.
C11_Witness ==
    /\ IsPytestRun
    /\ \E i \in 1..Len(ValidTestcases) :
         /\ PytestMade(i)
         /\ ValidTestcases[i].children = {"failure", "error"}

\* C12: a testcase with a custom error_message property that is not skipped
\* gets that property as its error_message; a skipped testcase gets the skip
\* message, with or without a custom error_message property.
C12_CustomMessageUnlessSkipped ==
    IsPytestRun =>
        \A i \in 1..Len(ValidTestcases) :
            PytestMade(i) =>
                LET testcase == ValidTestcases[i]
                    message == p_out.value[i].error_message
                IN /\ (HasCustomMessage(testcase) /\ "skipped" \notin testcase.children) =>
                          message = testcase.properties.error_message
                   /\ "skipped" \in testcase.children => message = "skipped message"

\* C12 witness: a Test was made for a skipped testcase with a custom
\* error_message property.
C12_Witness ==
    /\ IsPytestRun
    /\ \E i \in 1..Len(ValidTestcases) :
         /\ PytestMade(i)
         /\ HasCustomMessage(ValidTestcases[i])
         /\ "skipped" \in ValidTestcases[i].children

\* ------------------------------------------------------------------------
\* Optional arguments and values of the OpTest parsers.
\* ------------------------------------------------------------------------
NoneArg == [none |-> TRUE, v |-> "None"]
Arg(v) == [none |-> FALSE, v |-> v]

\* ------------------------------------------------------------------------
\* pydantic_models.TensorDesc and OpTest.
\* ------------------------------------------------------------------------

\* TensorDesc(**tensor): every field is required; a tensor of the model is
\* complete or lacks its shape.
TensorDesc(tensor) ==
    IF tensor.complete THEN Ret(tensor) ELSE Raise("ValidationError")

\* The entry a parser's list holds where the code put None.
NoneOpTest == [none |-> TRUE]

\* OpTest(**kw): the record, or ValidationError. github_job_id, frontend and
\* model_name may not be None, inputs and outputs are lists of TensorDesc.
OpTest(kw) ==
    IF /\ ~kw.github_job_id.none
       /\ ~kw.frontend.none
       /\ ~kw.model_name.none
       /\ ~kw.test_start_ts.none
       /\ ~kw.test_end_ts.none
       /\ kw.inputs.kind = "return"
       /\ kw.outputs.kind = "return"
    THEN Ret([kw EXCEPT !.inputs = kw.inputs.value, !.outputs = kw.outputs.value])
    ELSE Raise("ValidationError")

\* ------------------------------------------------------------------------
\* parsers/tt_torch_model_tests_parser.py
\* ------------------------------------------------------------------------

\* OpCompilationStatus: the member names, by value 0..7.
OpCompilationStatus ==
    <<"NOT_STARTED", "CREATED_GRAPH", "CONVERTED_TO_TORCH_IR",
      "CONVERTED_TO_TORCH_BACKEND_IR", "CONVERTED_TO_STABLE_HLO", "CONVERTED_TO_TTIR",
      "CONVERTED_TO_TTNN", "EXECUTED">>

EXECUTED == 7

\* str(status).split("."): str() of an IntEnum member is "Class.MEMBER" up
\* to Python 3.10 and the number's text from Python 3.11 on.
StrSplit(status, py311) ==
    IF py311
    THEN <<status>>
    ELSE <<"OpCompilationStatus", OpCompilationStatus[status + 1]>>

\* _map_tensor_desc(tensors), consumed by the validation of OpTest: the list
\* of TensorDesc, or the ValidationError of the first tensor that fails.
RECURSIVE MapTensorDesc(_)
MapTensorDesc(tensors) ==
    IF tensors = <<>>
    THEN Ret(<<>>)
    ELSE LET first == TensorDesc(Head(tensors))
             rest == MapTensorDesc(Tail(tensors))
         IN IF first.kind = "raise" THEN first
            ELSE IF rest.kind = "raise" THEN rest
            ELSE Ret(<<first.value>> \o rest.value)

\* _get_pydantic_test(filepath, name, test, project, github_job_id): what it
\* returns (the OpTest, or None after a validation error) or raises.
TarGetPydanticTest(filepath, name, test, project, github_job_id, py311, default_timestamp) ==
    IF ~test.has_status THEN Raise("KeyError")
    ELSE IF test.compilation_status \notin 0..EXECUTED THEN Raise("ValueError")
    ELSE LET status == test.compilation_status
             failed == status < EXECUTED
             parts == StrSplit(status, py311)
         IN IF Len(parts) < 2 THEN Raise("IndexError")
            ELSE LET made == OpTest([none |-> FALSE,
                                     github_job_id |-> github_job_id,
                                     full_test_name |-> <<filepath, "::", name>>,
                                     test_start_ts |-> default_timestamp,
                                     test_end_ts |-> default_timestamp,
                                     test_case_name |-> name,
                                     filepath |-> filepath,
                                     success |-> ~(failed \/ FALSE),
                                     skipped |-> FALSE,
                                     error_message |-> parts[2],
                                     frontend |-> project,
                                     model_name |-> IF test.has_model_name
                                                    THEN test.model_name
                                                    ELSE Arg(filepath.stem),
                                     inputs |-> MapTensorDesc(test.input_tensors),
                                     outputs |-> MapTensorDesc(test.output_tensors)])
                 IN IF made.kind = "return" THEN made ELSE Ret(NoneOpTest)

\* _get_tests(filepath, project, github_job_id) on the archive's JSON files,
\* flattened: the entries from the i-th on.
RECURSIVE TarGetTests(_, _, _, _, _, _)
TarGetTests(entries, i, project, github_job_id, py311, default_timestamp) ==
    IF i > Len(entries)
    THEN Ret(<<>>)
    ELSE LET e == entries[i]
             first == TarGetPydanticTest(e.file, e.name, e.test, project, github_job_id,
                                         py311, default_timestamp)
             rest == TarGetTests(entries, i + 1, project, github_job_id, py311,
                                 default_timestamp)
         IN IF first.kind = "raise" THEN first
            ELSE IF rest.kind = "raise" THEN rest
            ELSE Ret(<<first.value>> \o rest.value)

\* ------------------------------------------------------------------------
\* The archives the tar parser is run on: the entries of the JSON files in
\* the order the parser walks them, each a top-level key and its record.
\* ------------------------------------------------------------------------
CompleteTensor == [complete |-> TRUE, shape |-> <<1, 32>>, data_type |-> "bfloat16"]
ShapelessTensor == [complete |-> FALSE, shape |-> <<>>, data_type |-> "bfloat16"]

TarRecord(has_status, status, tensors) ==
    [has_status |-> has_status, compilation_status |-> status, has_model_name |-> FALSE,
     model_name |-> NoneArg, input_tensors |-> tensors, output_tensors |-> <<>>]

\* Records with a status of the enum, with and without tensors; a record
\* with a model name; and the malformed ones: a tensor without shape, a
\* status outside the enum, no status.
TarRecords ==
    { TarRecord(TRUE, st, ts) : st \in {0, 6, EXECUTED}, ts \in {<<>>, <<CompleteTensor>>} }
    \cup { [TarRecord(TRUE, EXECUTED, <<>>) EXCEPT !.has_model_name = TRUE,
                                                  !.model_name = Arg("resnet")],
           TarRecord(TRUE, EXECUTED, <<CompleteTensor, ShapelessTensor>>),
           TarRecord(TRUE, EXECUTED + 1, <<>>),
           TarRecord(FALSE, 0, <<>>) }

TarJsonFiles == {[dir |-> "/tmp/run1.tar", stem |-> s] : s \in {"a", "b"}}

TarKeys == <<"k1", "k2", "k3", "k4">>

\* The entries of an archive: the i-th has the i-th key, and the entries of
\* one file follow each other.
TarArchives ==
    { es \in SeqsUpTo([file : TarJsonFiles, test : TarRecords], MaxCases) :
        \A i \in 1..(Len(es) - 1) : es[i].file.stem = "b" => es[i + 1].file.stem = "b" }

TarEntries(archive) ==
    [i \in 1..Len(archive) |-> [file |-> archive[i].file, name |-> TarKeys[i],
                                test |-> archive[i].test]]

\* The callers' arguments: parse(filepath) and
\* parse(filepath, project=..., github_job_id=...).
ParseArgs ==
    { [project |-> NoneArg, github_job_id |-> NoneArg],
      [project |-> Arg("tt-torch"), github_job_id |-> Arg(5)] }

\* TTTorchModelTestsParser().parse(filepath, project, github_job_id) in a
\* process that imported the module at `imported`, under either Python.
TarParse ==
    /\ c_call.op = "none"
    /\ \E archive \in TarArchives, args \in ParseArgs, py311 \in BOOLEAN,
          imported \in ClockReadings :
         /\ c_call' = [op |-> "tar_parse", archive |-> archive, args |-> args,
                       py311 |-> py311]
         /\ c_out' = TarGetTests(TarEntries(archive), 1, args.project, args.github_job_id,
                                 py311, Ts(imported))
    /\ UNCHANGED <<batchVars, dispatchVars, pytestVars, xunitVars, jobVars>>

InitTar == BatchIdle /\ DispatchIdle /\ ReportsIdle
NextTar == TarParse
SpecTar == InitTar /\ [][NextTar]_vars

\* ------------------------------------------------------------------------
\* Properties of the tar parser.
\* ------------------------------------------------------------------------
IsTarParse == c_call.op = "tar_parse"

\* Every record of the archive has a compilation status of the enum.
StatusesOfEnum ==
    \A i \in 1..Len(c_call.archive) :
        /\ c_call.archive[i].test.has_status
        /\ c_call.archive[i].test.compilation_status \in 0..EXECUTED

\* The i-th entry of the list is an OpTest with the success, message and
\* skipped flag that the record's status calls for.
StatusMapped(i) ==
    LET status == c_call.archive[i].test.compilation_status
        optest == c_out.value[i]
    IN /\ ~optest.none
       /\ optest.success <=> (status = EXECUTED)
       /\ status < EXECUTED => optest.error_message = OpCompilationStatus[status + 1]
       /\ ~optest.skipped

\* C13: for every top-level key of every JSON file of the archive the tar
\* parser emits one OpTest; its success is true iff the compilation status
\* is EXECUTED, below EXECUTED its error_message is the name of the status,
\* and skipped is false.
C13_OneOpTestPerKey ==
    (IsTarParse /\ StatusesOfEnum) =>
        /\ c_out.kind = "return"
        /\ Len(c_out.value) = Len(c_call.archive)
        /\ \A i \in 1..Len(c_call.archive) : StatusMapped(i)

\* C13 for the callers that pass a project and a job id, under a Python
\* before 3.11.
C13_OneOpTestPerKeyWithArgs ==
    (IsTarParse /\ StatusesOfEnum /\ ~c_call.args.project.none /\ ~c_call.py311) =>
        C13_OneOpTestPerKey

\* The entries that are OpTests have what their record's status calls for.
C13_StatusMappedWhenMade ==
    (IsTarParse /\ c_out.kind = "return") =>
        \A i \in 1..Len(c_out.value) : ~c_out.value[i].none => StatusMapped(i)

\* C13 witness: the parser returned OpTests for an archive with a record
\* below EXECUTED and one at EXECUTED.
C13_Witness ==
    /\ IsTarParse
    /\ StatusesOfEnum
    /\ c_out.kind = "return"
    /\ \E i, j \in 1..Len(c_call.archive) :
         /\ c_call.archive[i].test.compilation_status < EXECUTED
         /\ c_call.archive[j].test.compilation_status = EXECUTED
         /\ ~c_out.value[i].none
         /\ ~c_out.value[j].none

\* ------------------------------------------------------------------------
\* parsers/builder_pytest_parser.py. TestStatus and Backend are imported
\* from pydantic_models; their members are the ones the parser names.
\* ------------------------------------------------------------------------
TestStatus ==
    [compile_failed |-> "compile-failed", run_failed |-> "run-failed",
     golden_failed |-> "golden-failed", success |-> "success"]

Backend == [ttnn |-> "ttnn", ttmetal |-> "ttmetal"]

\* properties.get(key): None if the testcase has no such property.
GetProperty(properties, key) ==
    IF key \in properties.has THEN Arg(properties[key]) ELSE NoneArg

\* A resolution that gives a testcase without a known backend the backend
\* ttnn instead of an error.
MutResolveBackend(properties) ==
    LET backend_str == GetProperty(properties, "backend")
    IN IF backend_str.none THEN Ret(Backend.ttnn)
       ELSE CASE backend_str.v = "ttmetal" -> Ret(Backend.ttmetal)
              [] OTHER -> Ret(Backend.ttnn)

\* The backend of a testcase, or ValueError.
ResolveBackend(properties) ==
    LET backend_str == GetProperty(properties, "backend")
    IN IF backend_str.none \/ backend_str.v = ""
       THEN Raise("ValueError")
       ELSE CASE backend_str.v = "ttnn" -> Ret(Backend.ttnn)
              [] backend_str.v = "ttmetal" -> Ret(Backend.ttmetal)
              [] backend_str.v = "ttnn-standalone" -> Ret(Backend.ttnn)
              [] OTHER -> Raise("ValueError")

\* A resolution that reads a skipped testcase without failure_stage as a
\* success.
MutResolveStatus(failure_stage, skipped, failed, error) ==
    IF failure_stage.none
    THEN IF failed \/ error THEN Arg(TestStatus.run_failed) ELSE Arg(TestStatus.success)
    ELSE CASE failure_stage.v = "compile" -> Arg(TestStatus.compile_failed)
           [] failure_stage.v = "runtime" -> Arg(TestStatus.run_failed)
           [] failure_stage.v = "golden" -> Arg(TestStatus.golden_failed)
           [] OTHER -> Arg(TestStatus.success)

\* The status of a testcase from its failure_stage property.
ResolveStatus(failure_stage, skipped, failed, error) ==
    IF failure_stage.none
    THEN IF skipped THEN NoneArg
         ELSE IF failed \/ error THEN Arg(TestStatus.run_failed)
         ELSE Arg(TestStatus.success)
    ELSE CASE failure_stage.v = "compile" -> Arg(TestStatus.compile_failed)
           [] failure_stage.v = "runtime" -> Arg(TestStatus.run_failed)
           [] failure_stage.v = "golden" -> Arg(TestStatus.golden_failed)
           [] failure_stage.v = "success" -> Arg(TestStatus.success)
           [] OTHER -> IF failed \/ error THEN Arg(TestStatus.run_failed)
                       ELSE IF skipped THEN NoneArg
                       ELSE Arg(TestStatus.success)

\* ast.literal_eval of one element of the shapes list: "(32, 32)" is a
\* tuple, "32" a number that the code wraps into a list, other texts raise.
ShapeEval(shape_str) ==
    CASE shape_str = "(32, 32)" -> Ret(<<32, 32>>)
      [] shape_str = "32" -> Ret(<<32>>)
      [] OTHER -> Raise("SyntaxError")

\* The loop over zip(shapes_list, dtypes_list) from the i-th pair on, with
\* the lists built so far: it ends at the end of the shorter list or at the
\* first element that raises, leaving the lists as they are then.
RECURSIVE TensorLoop(_, _, _, _, _)
TensorLoop(shapes_list, dtypes_list, i, inputs, outputs) ==
    IF i > Len(shapes_list) \/ i > Len(dtypes_list)
    THEN [inputs |-> inputs, outputs |-> outputs]
    ELSE LET shape == ShapeEval(shapes_list[i])
         IN IF shape.kind = "raise"
            THEN [inputs |-> inputs, outputs |-> outputs]
            ELSE LET tensor_desc == [complete |-> TRUE, shape |-> shape.value,
                                     data_type |-> dtypes_list[i]]
                 IN TensorLoop(shapes_list, dtypes_list, i + 1,
                               Append(inputs, tensor_desc),
                               IF i = Len(shapes_list) THEN Append(outputs, tensor_desc)
                               ELSE outputs)

\* inputs and outputs from the input_shapes and input_dtypes properties. A
\* property's text is its elements if it evaluates to a list (`list`).
ParseTensors(properties) ==
    LET input_shapes_str == GetProperty(properties, "input_shapes")
        input_dtypes_str == GetProperty(properties, "input_dtypes")
        empty == [inputs |-> <<>>, outputs |-> <<>>]
    IN IF input_shapes_str.none \/ input_dtypes_str.none
       THEN empty
       ELSE IF ~input_shapes_str.v.list \/ ~input_dtypes_str.v.list
       THEN empty
       ELSE TensorLoop(input_shapes_str.v.elems, input_dtypes_str.v.elems, 1, <<>>, <<>>)

\* get_pydantic_optest_from_pytest_testcase_: what it returns (the OpTest,
\* or None after a validation error) or raises.
BuilderGetPydanticOpTest(testcase, default_timestamp, project, github_job_id, card_type, git_sha) ==
    LET skipped == GetPytestTestcaseIsSkipped(testcase)
        failed == GetPytestTestcaseIsFailed(testcase)
        error == GetPytestTestcaseIsError(testcase)
        properties == GetPytestTestcaseProperties(testcase)
        custom == GetProperty(properties, "error_message")
        if_failed == IF failed THEN GetPytestFailureMessage(testcase) ELSE None
        if_error == IF error THEN GetPytestErrorMessage(testcase) ELSE if_failed
        fallback == IF skipped THEN GetPytestSkippedMessage(testcase) ELSE if_error
        error_message == IF custom.none THEN fallback ELSE custom.v
        own == ~(skipped \/ error) /\ "start_timestamp" \in properties.has
        start == IF own THEN ParseTimestamp(properties.start_timestamp) ELSE default_timestamp
        filepath == ReplaceDots(testcase.classname.text) \o <<".", "p", "y">>
        test_case_name == SplitBracket(testcase.name.text)
        backend == ResolveBackend(properties)
        tensors == ParseTensors(properties)
    IN IF start.none THEN Raise("TypeError")
       ELSE IF backend.kind = "raise" THEN backend
       ELSE LET made ==
                  OpTest([none |-> FALSE,
                          github_job_id |-> IF github_job_id.none THEN Arg(0)
                                            ELSE github_job_id,
                          full_test_name |-> filepath \o <<":", ":">> \o testcase.name.text,
                          test_start_ts |-> start,
                          test_end_ts |-> AddTime(start, testcase.time),
                          test_case_name |-> test_case_name,
                          filepath |-> filepath,
                          success |-> ~(failed \/ error),
                          skipped |-> skipped,
                          error_message |-> error_message,
                          frontend |-> IF project.none THEN Arg("builder") ELSE project,
                          model_name |-> Arg("builder_ops"),
                          op_kind |-> "builder_op",
                          inputs |-> Ret(tensors.inputs),
                          outputs |-> Ret(tensors.outputs),
                          git_sha |-> git_sha,
                          status |-> ResolveStatus(GetProperty(properties, "failure_stage"),
                                                   skipped, failed, error),
                          card_type |-> card_type,
                          backend |-> backend.value])
            IN IF made.kind = "return" THEN made ELSE Ret(NoneOpTest)

\* The loop of get_tests over the testcases from the i-th on: the list, or
\* the exception of the first testcase that raises.
RECURSIVE BuilderLoop(_, _, _, _, _, _, _)
BuilderLoop(testcases, i, default_timestamp, project, github_job_id, card_type, git_sha) ==
    IF i > Len(testcases)
    THEN Ret(<<>>)
    ELSE LET rest == BuilderLoop(testcases, i + 1, default_timestamp, project,
                                 github_job_id, card_type, git_sha)
             test == BuilderGetPydanticOpTest(testcases[i], default_timestamp, project,
                                              github_job_id, card_type, git_sha)
         IN IF ~IsValidTestcase(testcases[i]) THEN rest
            ELSE IF test.kind = "raise" THEN test
            ELSE IF rest.kind = "raise" THEN rest
            ELSE IF test.value.none THEN rest
            ELSE Ret(<<test.value>> \o rest.value)

\* get_tests(filepath, project, github_job_id) of the builder parser on a
\* report's first testsuite.
BuilderGetTests(testsuite, project, github_job_id) ==
    IF ~testsuite.has_timestamp
    THEN Raise("KeyError")
    ELSE BuilderLoop(testsuite.testcases, 1, ParseTimestamp(testsuite.timestamp), project,
                     github_job_id, testsuite.card, testsuite.git_sha)

\* ------------------------------------------------------------------------
\* Builder reports.
\* ------------------------------------------------------------------------

\* The text of an input_shapes or input_dtypes property: whether it
\* evaluates to a list, and the list's elements.
ListText(elems) == [list |-> TRUE, elems |-> elems]
BadText == [list |-> FALSE, elems |-> <<>>]

\* The properties of a builder testcase; `has` tells which keys it has.
BuilderProperties(has, backend, failure_stage, input_shapes, input_dtypes) ==
    [has |-> has, error_message |-> "custom message",
     start_timestamp |-> RawTs(SupportedFormats[2], 2), backend |-> backend,
     failure_stage |-> failure_stage, input_shapes |-> input_shapes,
     input_dtypes |-> input_dtypes]

BareProperties == BuilderProperties({"backend"}, "ttnn", "", BadText, BadText)

FailureStages == {"compile", "runtime", "golden", "success", "link"}

StageBag(s) == BuilderProperties({"backend", "failure_stage"}, "ttnn", s, BadText, BadText)

\* Properties that bear on the backend, the message and the timestamps.
BackendBags ==
    { BuilderProperties({}, "", "", BadText, BadText),
      BuilderProperties({"backend"}, "ttmetal", "", BadText, BadText),
      BuilderProperties({"backend"}, "ttnn-standalone", "", BadText, BadText),
      BuilderProperties({"backend"}, "cuda", "", BadText, BadText),
      BuilderProperties({"backend", "error_message", "start_timestamp"}, "ttnn", "",
                        BadText, BadText) }

\* Properties that bear on the tensors: lists that parse, a list whose
\* first or second element does not, texts that are no list, a dtype list
\* shorter than the shape list, and a lone input_shapes.
TensorBags ==
    { BuilderProperties({"backend", "input_shapes", "input_dtypes"}, "ttnn", "", s, d) :
        s \in { ListText(<<"(32, 32)", "32">>), ListText(<<"(32, 32)", "(32">>),
                ListText(<<"(32", "(32, 32)">>) },
        d \in { ListText(<<"f32", "bf16">>) } }
    \cup
    { BuilderProperties({"backend", "input_shapes", "input_dtypes"}, "ttnn", "",
                        BadText, ListText(<<"f32", "bf16">>)),
      BuilderProperties({"backend", "input_shapes", "input_dtypes"}, "ttnn", "",
                        ListText(<<"(32, 32)", "32">>), BadText),
      BuilderProperties({"backend", "input_shapes", "input_dtypes"}, "ttnn", "",
                        ListText(<<"(32, 32)", "32">>), ListText(<<"f32">>)),
      BuilderProperties({"backend", "input_shapes"}, "ttnn", "",
                        ListText(<<"(32, 32)", "32">>), BadText) }

BuilderOutcomes == {{}, {"failure"}, {"error"}, {"skipped"}}

\* <testcase> elements of a builder report.
BuilderTestcases ==
    { [name |-> NoneStr, classname |-> Str(PytestClassname), children |-> {}, time |-> 1,
       properties |-> BareProperties],
      [name |-> NoneStr, classname |-> Str(PytestClassname), children |-> {}, time |-> 1,
       properties |-> BuilderProperties({}, "", "", BadText, BadText)],
      [name |-> Str(PytestName), classname |-> Str(PytestClassname),
       children |-> {"failure", "skipped"}, time |-> 1, properties |-> BareProperties] }
    \cup
    { [name |-> Str(PytestName), classname |-> Str(PytestClassname), children |-> o,
       time |-> 1, properties |-> b] :
        o \in BuilderOutcomes, b \in {BareProperties, StageBag("compile"), StageBag("link")} }
    \cup
    { [name |-> Str(PytestName), classname |-> Str(PytestClassname),
       children |-> {"failure"}, time |-> 1, properties |-> StageBag(s)] :
        s \in FailureStages }
    \cup
    { [name |-> Str(PytestName), classname |-> Str(PytestClassname), children |-> {},
       time |-> 1, properties |-> b] : b \in BackendBags \cup TensorBags }

\* The first <testsuite> of a builder report, with its card property.
BuilderSuites ==
    { [has_timestamp |-> st.has, timestamp |-> st.raw, testcases |-> tcs,
       card |-> Arg("n150"), git_sha |-> NoneArg] :
        st \in SuiteTimestamps, tcs \in SeqsUpTo(BuilderTestcases, MaxCases) }

BuilderArgs ==
    { [project |-> NoneArg, github_job_id |-> NoneArg],
      [project |-> Arg("tt-mlir"), github_job_id |-> Arg(5)] }

\* BuilderPytestParser().parse(filepath, project, github_job_id).
BuilderParse ==
    /\ c_call.op = "none"
    /\ \E testsuite \in BuilderSuites, args \in BuilderArgs :
         /\ c_call' = [op |-> "builder_parse", testsuite |-> testsuite, args |-> args]
         /\ c_out' = BuilderGetTests(testsuite, args.project, args.github_job_id)
    /\ UNCHANGED <<batchVars, dispatchVars, pytestVars, xunitVars, jobVars>>

InitBuilder == BatchIdle /\ DispatchIdle /\ ReportsIdle
NextBuilder == BuilderParse
SpecBuilder == InitBuilder /\ [][NextBuilder]_vars

\* ------------------------------------------------------------------------
\* Properties of the builder parser.
\* ------------------------------------------------------------------------
IsBuilderReturn == c_call.op = "builder_parse" /\ c_out.kind = "return"

\* The testcases of the parsed report that have a name and a classname.
BuilderValid == SelectSeq(c_call.testsuite.testcases, IsValidTestcase)

MappedStages == {"compile", "runtime", "golden", "success"}

\* The status that the mapping of stages gives a testcase.
ClaimedStatus(testcase) ==
    LET p == testcase.properties
        skipped == "skipped" \in testcase.children
        failed_or_errored == testcase.children \cap {"failure", "error"} /= {}
    IN IF "failure_stage" \in p.has
       THEN CASE p.failure_stage = "compile" -> Arg("compile-failed")
              [] p.failure_stage = "golden" -> Arg("golden-failed")
              [] p.failure_stage = "runtime" -> Arg("run-failed")
              [] p.failure_stage = "success" -> Arg("success")
       ELSE IF skipped THEN NoneArg
       ELSE IF failed_or_errored THEN Arg("run-failed")
       ELSE Arg("success")

Unparsable(testcase) ==
    LET p == testcase.properties
    IN /\ {"input_shapes", "input_dtypes"} \subseteq p.has
       /\ \/ ~p.input_shapes.list
          \/ ~p.input_dtypes.list
          \/ \E k \in 1..Len(p.input_shapes.elems) :
               p.input_shapes.elems[k] \notin {"(32, 32)", "32"}

\* C15: when the input_shapes / input_dtypes properties of a builder
\* testcase cannot be parsed, in the outer lists or in any single shape, its
\* OpTest is still emitted and its inputs and outputs are both empty lists.
C15_EmptyTensorsOnParseError ==
    IsBuilderReturn =>
        /\ Len(c_out.value) = Len(BuilderValid)
        /\ \A i \in 1..Len(BuilderValid) :
             Unparsable(BuilderValid[i]) =>
                 /\ c_out.value[i].inputs = <<>>
                 /\ c_out.value[i].outputs = <<>>

\* C15 for the failures that happen before the first tensor is built: in an
\* outer list or in the first shape.
C15_EmptyTensorsOnEarlyParseError ==
    IsBuilderReturn =>
        \A i \in 1..Len(BuilderValid) :
            LET p == BuilderValid[i].properties
            IN (/\ Unparsable(BuilderValid[i])
                /\ \/ ~p.input_shapes.list
                   \/ ~p.input_dtypes.list
                   \/ p.input_shapes.elems[1] \notin {"(32, 32)", "32"})
                 => /\ c_out.value[i].inputs = <<>>
                    /\ c_out.value[i].outputs = <<>>

\* A parsed report with a testcase whose second shape cannot be parsed.
C15_Witness ==
    /\ IsBuilderReturn
    /\ \E i \in 1..Len(BuilderValid) :
         /\ Unparsable(BuilderValid[i])
         /\ BuilderValid[i].properties.input_shapes.list
         /\ BuilderValid[i].properties.input_dtypes.list
         /\ BuilderValid[i].properties.input_shapes.elems[1] = "(32, 32)"

\* ------------------------------------------------------------------------
\* parsers/parameter_support_test_parser.py and
\* parsers/parameter_support_parser.py
\* ------------------------------------------------------------------------
CATEGORY == "parameter_support"
OWNER == "tt-shield"

PassWords == {<<"p", "a", "s", "s", "e", "d">>, <<"s", "u", "c", "c", "e", "s", "s">>,
              <<"p", "a", "s", "s">>, <<"o", "k">>}
FailWords == {<<"f", "a", "i", "l", "e", "d">>, <<"f", "a", "i", "l", "u", "r", "e">>,
              <<"f", "a", "i", "l">>, <<"e", "r", "r", "o", "r">>}
SkipWords == {<<"s", "k", "i", "p", "p", "e", "d">>, <<"s", "k", "i", "p">>}

\* dict.get(key, default) on a JSON object of the model, whose `has` tells
\* which keys it holds.
GetOr(object, key, default) == IF key \in object.has THEN object[key] ELSE default

\* s.split("::")[0]
BeforeColons(s) ==
    IF Contains(s, <<":", ":">>)
    THEN LET i == CHOOSE k \in 0..(Len(s) - 2) :
                     /\ SubSeq(s, k + 1, k + 2) = <<":", ":">>
                     /\ \A j \in 0..(k - 1) : SubSeq(s, j + 1, j + 2) /= <<":", ":">>
         IN SubSeq(s, 1, i)
    ELSE s

\* What pydantic makes of the text of a timestamp: the instant, or nothing
\* where the text is no datetime (which fails the validation as None does).
DatetimeOf(text) == IF text.iso THEN Ts(text.t) ELSE NoneTs

\* "9999-12-31T23:59:59Z"
DefaultTimestampText == [iso |-> TRUE, t |-> 9999]

\* config of the Test: ParameterSupportTestParser builds it from the
\* dataclass (with device), ParameterSupportParser from three lookups.
ParamConfig(param_support_tests, with_device) ==
    [type |-> "dict",
     model_name |-> GetOr(param_support_tests, "model_name", "unknown_model"),
     device |-> IF with_device THEN GetOr(param_support_tests, "device", "unknown_device")
                ELSE "absent"]

\* _create_test_from_case: the Test, or None after a validation error.
CreateTestFromCase(param_support_tests, test_group_name, test_case, with_device, strict) ==
    LET test_start_ts == GetOr(test_case, "test_start_ts", DefaultTimestampText)
        test_end_ts == GetOr(test_case, "test_end_ts", DefaultTimestampText)
        test_case_name == GetOr(test_case, "test_node_name", "unknown")
        filepath == IF "test_id" \in test_case.has THEN BeforeColons(test_case.test_id)
                    ELSE <<"u", "n", "k", "n", "o", "w", "n">>
        status == Lower(GetOr(test_case, "status", <<"u", "n", "k", "n", "o", "w", "n">>))
        message == GetOr(test_case, "message", "")
        success == status \in PassWords
        failed == status \in FailWords
        skipped == status \in SkipWords
        error_message == IF failed \/ skipped THEN Arg(message) ELSE NoneArg
        full_test_name == GetOr(test_case, "test_id", <<"u", "n", "k", "n", "o", "w", "n">>)
        made == Test([none |-> FALSE,
                      test_start_ts |-> DatetimeOf(test_start_ts),
                      test_end_ts |-> DatetimeOf(test_end_ts),
                      test_case_name |-> test_case_name,
                      filepath |-> filepath,
                      category |-> CATEGORY,
                      group |-> test_group_name,
                      owner |-> OWNER,
                      error_message |-> error_message,
                      success |-> success,
                      skipped |-> skipped,
                      full_test_name |-> full_test_name,
                      config |-> ParamConfig(param_support_tests, with_device),
                      tags |-> [type |-> "dict", value |-> "parameter_support_test"]],
                     {}, strict)
    IN IF made.kind = "return" THEN made.value ELSE NoneTest

\* The inner loop of parse over the outcomes of one group from the j-th on.
RECURSIVE ParamCases(_, _, _, _, _, _)
ParamCases(param_support_tests, test_group_name, test_case_results, j, with_device, strict) ==
    IF j > Len(test_case_results)
    THEN <<>>
    ELSE LET test == CreateTestFromCase(param_support_tests, test_group_name,
                                        test_case_results[j], with_device, strict)
             rest == ParamCases(param_support_tests, test_group_name, test_case_results,
                                j + 1, with_device, strict)
         IN IF test.none THEN rest ELSE <<test>> \o rest

\* The outer loop of parse over the groups of results from the i-th on.
RECURSIVE ParamGroups(_, _, _, _)
ParamGroups(param_support_tests, i, with_device, strict) ==
    IF i > Len(param_support_tests.results)
    THEN <<>>
    ELSE ParamCases(param_support_tests, param_support_tests.results[i].name,
                    param_support_tests.results[i].cases, 1, with_device, strict)
         \o ParamGroups(param_support_tests, i + 1, with_device, strict)

\* {**param_support_tests, **metadata}: the keys of metadata win.
MergeMetadata(param_support_tests, metadata) ==
    [param_support_tests EXCEPT
       !.has = param_support_tests.has \cup metadata.has,
       !.model_name = IF "model_name" \in metadata.has THEN metadata.model_name ELSE @,
       !.device = IF "device" \in metadata.has THEN metadata.device ELSE @,
       !.results = IF "results" \in metadata.has THEN metadata.results ELSE @]

\* parse(filepath) on a readable JSON report. ParameterSupportTestParser
\* (`test_parser`) merges the report's metadata in, ParameterSupportParser
\* does not.
ParamParseFile(data, test_parser, strict) ==
    LET param_support_tests == data.parameter_support_tests
    IN IF "parameter_support_tests" \notin data.has
          \/ param_support_tests.has = {}
          \/ "results" \notin param_support_tests.has
       THEN Ret(<<>>)
       ELSE Ret(ParamGroups(IF test_parser
                            THEN MergeMetadata(param_support_tests, data.metadata)
                            ELSE param_support_tests,
                            1, test_parser, strict))

\* ------------------------------------------------------------------------
\* Parameter-support reports.
\* ------------------------------------------------------------------------

\* An outcome of a results group; `has` tells which keys it holds.
ParamCase(has, status, message, start) ==
    [has |-> has, status |-> status, message |-> message, test_node_name |-> "test_n[2]",
     test_id |-> <<"a", ".", "p", "y", ":", ":", "t">>, test_start_ts |-> start,
     test_end_ts |-> [iso |-> TRUE, t |-> 3]]

\* Status strings of the three sets in several spellings, and others.
ParamStatuses ==
    { <<"p", "a", "s", "s", "e", "d">>, <<"P", "A", "S", "S", "E", "D">>, <<"O", "K">>,
      <<"s", "u", "c", "c", "e", "s", "s">>, <<"P", "a", "s", "s">>,
      <<"f", "a", "i", "l", "e", "d">>, <<"F", "a", "i", "l", "u", "r", "e">>,
      <<"F", "A", "I", "L">>, <<"e", "r", "r", "o", "r">>,
      <<"s", "k", "i", "p", "p", "e", "d">>, <<"S", "K", "I", "P">>,
      <<"x", "f", "a", "i", "l">>, <<>> }

ParamOutcomes ==
    { ParamCase({"status", "message", "test_node_name"}, st, "boom", DefaultTimestampText) :
        st \in ParamStatuses }
    \cup
    { ParamCase({"status", "test_node_name"}, st, "", DefaultTimestampText) :
        st \in { <<"p", "a", "s", "s", "e", "d">>, <<"f", "a", "i", "l", "e", "d">>,
                 <<"s", "k", "i", "p", "p", "e", "d">> } }
    \cup
    { ParamCase({"message", "test_node_name"}, <<>>, "boom", DefaultTimestampText),
      ParamCase({"status", "message", "test_node_name", "test_id", "test_start_ts",
                 "test_end_ts"}, <<"p", "a", "s", "s", "e", "d">>, "boom",
                [iso |-> TRUE, t |-> 2]),
      ParamCase({"status", "message", "test_node_name", "test_start_ts", "test_end_ts"},
                <<"p", "a", "s", "s", "e", "d">>, "boom", [iso |-> FALSE, t |-> 2]) }

GroupNames == <<"test_n", "test_max_tokens">>

\* results: the outcomes `cases` in one group, or cut after the k-th into
\* two groups.
ParamResults ==
    { <<>> }
    \cup { <<[name |-> GroupNames[1], cases |-> cs]>> : cs \in SeqsUpTo(ParamOutcomes, MaxCases) }
    \cup UNION { { <<[name |-> GroupNames[1], cases |-> SubSeq(cs, 1, k)],
                      [name |-> GroupNames[2], cases |-> SubSeq(cs, k + 1, Len(cs))]>> :
                      k \in 0..Len(cs) } : cs \in SeqsUpTo(ParamOutcomes, MaxCases) }

\* A few results objects for the reports that carry a metadata object.
MetadataResults ==
    { <<>>,
      <<[name |-> GroupNames[1],
         cases |-> <<ParamCase({"status", "message", "test_node_name"},
                               <<"p", "a", "s", "s", "e", "d">>, "boom",
                               DefaultTimestampText)>>]>>,
      <<[name |-> GroupNames[2],
         cases |-> <<ParamCase({"status", "message", "test_node_name"},
                               <<"f", "a", "i", "l", "e", "d">>, "boom", DefaultTimestampText),
                     ParamCase({"status", "test_node_name"},
                               <<"s", "k", "i", "p", "p", "e", "d">>, "",
                               DefaultTimestampText)>>]>> }

\* The parameter_support_tests object and the metadata object of a report.
ParamSection(has, results) ==
    [has |-> has, results |-> results, model_name |-> "Llama-3.1-8B-Instruct",
     device |-> "n150"]

NoMetadata == [has |-> {}, model_name |-> "", device |-> "", results |-> <<>>]

\* A metadata object with the given keys: a model name and a results object
\* of its own.
Metadata(has, results) == [has |-> has, model_name |-> "Llama", device |-> "", results |-> results]

ParamReports ==
    { [has |-> {"parameter_support_tests"},
       parameter_support_tests |-> ParamSection({"results", "model_name"}, r),
       metadata |-> mt] :
        r \in ParamResults, mt \in { NoMetadata } }
    \cup
    { [has |-> {"parameter_support_tests", "metadata"},
       parameter_support_tests |-> ParamSection({"results", "model_name"}, <<>>),
       metadata |-> Metadata({"model_name"}, <<>>)],
      [has |-> {"parameter_support_tests"},
       parameter_support_tests |-> ParamSection({"model_name"}, <<>>),
       metadata |-> NoMetadata],
      [has |-> {"parameter_support_tests"},
       parameter_support_tests |-> ParamSection({}, <<>>),
       metadata |-> NoMetadata],
      [has |-> {}, parameter_support_tests |-> ParamSection({}, <<>>),
       metadata |-> NoMetadata] }
    \cup
    { [has |-> {"parameter_support_tests", "metadata"},
       parameter_support_tests |-> ParamSection({"results", "model_name"}, r),
       metadata |-> Metadata(has, mr)] :
        r \in MetadataResults, mr \in MetadataResults,
        has \in {{"model_name"}, {"results"}, {"model_name", "results"}} }

\* ParameterSupportTestParser().parse(filepath) or
\* ParameterSupportParser().parse(filepath), in a build with either
\* treatment of the Optional fields.
ParamParse ==
    /\ c_call.op = "none"
    /\ \E data \in ParamReports, test_parser \in BOOLEAN, strict \in BOOLEAN :
         /\ c_call' = [op |-> "param_parse", data |-> data, test_parser |-> test_parser,
                       strict |-> strict]
         /\ c_out' = ParamParseFile(data, test_parser, strict)
    /\ UNCHANGED <<batchVars, dispatchVars, pytestVars, xunitVars, jobVars>>

InitParam == BatchIdle /\ DispatchIdle /\ ReportsIdle
NextParam == ParamParse
SpecParam == InitParam /\ [][NextParam]_vars

\* ------------------------------------------------------------------------
\* Properties of the parameter-support parsers.
\* ------------------------------------------------------------------------
IsParamParse ==
    /\ c_call.op = "param_parse"
    /\ "parameter_support_tests" \in c_call.data.has
    /\ "results" \in c_call.data.parameter_support_tests.has

\* The outcomes of the groups from the i-th on, in group order then outcome
\* order, each with the name of its group.
RECURSIVE OutcomesInOrder(_, _)
OutcomesInOrder(results, i) ==
    IF i > Len(results)
    THEN <<>>
    ELSE [j \in 1..Len(results[i].cases) |->
            [group |-> results[i].name, outcome |-> results[i].cases[j]]]
         \o OutcomesInOrder(results, i + 1)

ParsedOutcomes == OutcomesInOrder(c_call.data.parameter_support_tests.results, 1)

\* The Test `test` is the one that the outcome `o` of group `group` calls
\* for.
TestOfOutcome(test, group, o) ==
    LET status == Lower(o.status)
        fail_or_skip == status \in FailWords \cup SkipWords
    IN /\ test.category = "parameter_support"
       /\ test.group = group
       /\ test.success <=> status \in PassWords
       /\ test.skipped <=> status \in SkipWords
       /\ test.error_message = IF fail_or_skip THEN Arg(o.message) ELSE NoneArg

\* The outcomes of the report that carry a status and a message.
WithStatusAndMessage ==
    \A i \in 1..Len(ParsedOutcomes) :
        {"status", "message"} \subseteq ParsedOutcomes[i].outcome.has

\* C16: a parameter-support parser emits exactly one Test per outcome of
\* every results group, in group order then outcome order, with category
\* "parameter_support" and the group's name; success is true iff the
\* lower-cased status is in the pass set, skipped iff it is in the skip set,
\* and error_message is the outcome's message iff the status is in the fail
\* or the skip set, absent otherwise.
C16_OneTestPerOutcome ==
    (IsParamParse /\ WithStatusAndMessage) =>
        /\ c_out.kind = "return"
        /\ Len(c_out.value) = Len(ParsedOutcomes)
        /\ \A i \in 1..Len(ParsedOutcomes) :
             TestOfOutcome(c_out.value[i], ParsedOutcomes[i].group, ParsedOutcomes[i].outcome)

\* C16 in a build where the Optional fields declared without default may be
\* left out, for outcomes whose timestamps are datetimes, in a report whose
\* metadata has no results of its own.
C16_OneTestPerOutcomeLenient ==
    (/\ IsParamParse
     /\ WithStatusAndMessage
     /\ ~c_call.strict
     /\ "results" \notin c_call.data.metadata.has
     /\ \A i \in 1..Len(ParsedOutcomes) :
          GetOr(ParsedOutcomes[i].outcome, "test_start_ts", DefaultTimestampText).iso)
      => C16_OneTestPerOutcome

\* A parse of a report with two groups of one outcome each, the first
\* failed in capitals and the second passed.
C16_Witness ==
    /\ IsParamParse
    /\ WithStatusAndMessage
    /\ Len(c_call.data.parameter_support_tests.results) = 2
    /\ Len(ParsedOutcomes) = 2
    /\ ParsedOutcomes[1].group /= ParsedOutcomes[2].group
    /\ ParsedOutcomes[1].outcome.status = <<"F", "A", "I", "L">>
    /\ ParsedOutcomes[2].outcome.status = <<"p", "a", "s", "s", "e", "d">>
    /\ c_call.strict

\* ------------------------------------------------------------------------
\* benchmark.py
\* ------------------------------------------------------------------------

\* JSON values of a report's fields, by what pydantic makes of them as a
\* float.
Num(v) == [kind |-> "number", v |-> v]
Null == [kind |-> "null", v |-> 0]

\* A measurement model that takes any value.
MutBenchmarkMeasurement(kw) == Ret(kw)

\* pydantic_models.BenchmarkMeasurement(**kw): iteration, step_name, name
\* and value are required, and value is a float.
BenchmarkMeasurement(kw) ==
    IF /\ ~kw.iteration.none
       /\ ~kw.step_name.none
       /\ ~kw.name.none
       /\ kw.value.kind = "number"
    THEN Ret(kw)
    ELSE Raise("ValidationError")

\* pydantic_models.CompleteBenchmarkRun(**kw): run_type, device_hostname
\* and ml_model_name are required strings.
CompleteBenchmarkRun(kw) ==
    IF /\ ~kw.run_type.none
       /\ ~kw.device_hostname.none
       /\ ~kw.ml_model_name.none
    THEN Ret(kw)
    ELSE Raise("ValidationError")

\* What a mapper returns: None, or a list of runs.
NoneRuns == [none |-> TRUE, runs |-> <<>>]
Runs(runs) == [none |-> FALSE, runs |-> runs]

\* next((job for job in pipeline.jobs if job.github_job_id == job_id), None):
\* the first job of that id, or None.
NoneJob == [none |-> TRUE]

\* A lookup that falls back on the first job of the pipeline.
MutFindJob(jobs, job_id) ==
    IF jobs /= <<>> THEN jobs[1] ELSE NoneJob

FindJob(jobs, job_id) ==
    IF \E i \in 1..Len(jobs) : jobs[i].github_job_id = job_id
    THEN jobs[CHOOSE i \in 1..Len(jobs) :
                /\ jobs[i].github_job_id = job_id
                /\ \A j \in 1..(i - 1) : jobs[j].github_job_id /= job_id]
    ELSE NoneJob

\* The measurement fields that _process_benchmarks and _process_evals probe.
BenchmarkKeys ==
    <<"mean_ttft_ms", "std_ttft_ms", "mean_tpot_ms", "std_tpot_ms", "mean_tps", "std_tps",
      "tps_decode_throughput", "tps_prefill_throughput", "mean_e2el_ms",
      "request_throughput">>

EvalKeys == <<"score", "published_score", "gpu_reference_score">>

\* _create_measurements from the i-th key on: a key whose measurement
\* cannot be constructed is logged and left out.
RECURSIVE CreateMeasurements(_, _, _, _, _)
CreateMeasurements(job, step_name, data, keys, i) ==
    IF i > Len(keys)
    THEN <<>>
    ELSE LET key == keys[i]
             rest == CreateMeasurements(job, step_name, data, keys, i + 1)
             measurement ==
                 BenchmarkMeasurement([step_start_ts |-> job.job_start_ts,
                                       step_end_ts |-> job.job_end_ts,
                                       iteration |-> Arg(1),
                                       step_name |-> Arg(step_name),
                                       name |-> Arg(key),
                                       value |-> data.value[key]])
         IN IF key \in data.has
            THEN IF measurement.kind = "return" THEN <<measurement.value>> \o rest ELSE rest
            ELSE rest

\* model_name.split("/", 1)[1]
AfterSlash(s) ==
    LET i == CHOOSE k \in 1..Len(s) : s[k] = "/" /\ \A j \in 1..(k - 1) : s[j] /= "/"
    IN SubSeq(s, i + 1, Len(s))

\* A model name that keeps the prefix.
MutBenchmarkModelName(benchmark) ==
    IF "model_id" \in benchmark.has THEN benchmark.model_id ELSE NoneStr

\* The model name of a benchmark entry: its model_id, after the first
\* slash if it has one.
BenchmarkModelName(benchmark) ==
    LET model_name == IF "model_id" \in benchmark.has THEN benchmark.model_id ELSE NoneStr
    IN IF Truthy(model_name) /\ Contains(model_name.text, <<"/">>)
       THEN Str(AfterSlash(model_name.text))
       ELSE model_name

\* _create_complete_benchmark_run
CreateCompleteBenchmarkRun(pipeline, job, run_type, measurements, model_name) ==
    CompleteBenchmarkRun([run_type |-> Arg(run_type),
                          git_repo_name |-> pipeline.project,
                          github_pipeline_id |-> pipeline.github_pipeline_id,
                          github_job_id |-> job.github_job_id,
                          device_hostname |-> job.host_name,
                          ml_model_name |-> model_name,
                          ml_model_type |-> NoneStr,
                          measurements |-> measurements])

\* _process_benchmarks from the i-th entry on: the runs, or the
\* ValidationError of the first entry whose run does not validate.
RECURSIVE ProcessBenchmarks(_, _, _, _)
ProcessBenchmarks(pipeline, job, benchmarks, i) ==
    IF i > Len(benchmarks)
    THEN Ret(<<>>)
    ELSE LET measurements == CreateMeasurements(job, "benchmark", benchmarks[i],
                                                BenchmarkKeys, 1)
             run == CreateCompleteBenchmarkRun(pipeline, job, "benchmark", measurements,
                                               BenchmarkModelName(benchmarks[i]))
             rest == ProcessBenchmarks(pipeline, job, benchmarks, i + 1)
         IN IF run.kind = "raise" THEN run
            ELSE IF rest.kind = "raise" THEN rest
            ELSE Ret(<<run.value>> \o rest.value)

\* _process_evals from the i-th entry on.
RECURSIVE ProcessEvals(_, _, _, _)
ProcessEvals(pipeline, job, evals, i) ==
    IF i > Len(evals)
    THEN Ret(<<>>)
    ELSE LET measurements == CreateMeasurements(job, "eval", evals[i], EvalKeys, 1)
             run == CreateCompleteBenchmarkRun(pipeline, job, "eval", measurements,
                                               IF "model" \in evals[i].has
                                               THEN evals[i].model ELSE NoneStr)
             rest == ProcessEvals(pipeline, job, evals, i + 1)
         IN IF run.kind = "raise" THEN run
            ELSE IF rest.kind = "raise" THEN rest
            ELSE Ret(<<run.value>> \o rest.value)

\* report_data.get(section, [])
Section(report_data, section) ==
    IF section \in report_data.has THEN report_data[section] ELSE <<>>

\* ShieldBenchmarkDataMapper.map_benchmark_data
ShieldMapBenchmarkData(pipeline, job_id, report_data) ==
    LET job == FindJob(pipeline.jobs, job_id)
        benchmark_runs == ProcessBenchmarks(pipeline, job, Section(report_data, "benchmarks"), 1)
        eval_runs == ProcessEvals(pipeline, job, Section(report_data, "evals"), 1)
    IN IF job.none THEN NoneRuns
       ELSE IF benchmark_runs.kind = "raise" \/ eval_runs.kind = "raise" THEN NoneRuns
       ELSE Runs(benchmark_runs.value \o eval_runs.value)

\* The measurements of a tt-forge-fe report from the i-th on, or the
\* ValidationError of the first that does not validate.
RECURSIVE ForgeMeasurements(_, _, _)
ForgeMeasurements(job, measurements, i) ==
    IF i > Len(measurements)
    THEN Ret(<<>>)
    ELSE LET measurement ==
                 BenchmarkMeasurement([step_start_ts |-> job.job_start_ts,
                                       step_end_ts |-> job.job_end_ts,
                                       iteration |-> measurements[i].iteration,
                                       step_name |-> measurements[i].step_name,
                                       name |-> measurements[i].measurement_name,
                                       value |-> measurements[i].value])
             rest == ForgeMeasurements(job, measurements, i + 1)
         IN IF measurement.kind = "raise" THEN measurement
            ELSE IF rest.kind = "raise" THEN rest
            ELSE Ret(<<measurement.value>> \o rest.value)

\* ForgeFeBenchmarkDataMapper.map_benchmark_data
ForgeMapBenchmarkData(pipeline, job_id, report_data) ==
    LET job == FindJob(pipeline.jobs, job_id)
        measurements == ForgeMeasurements(job, Section(report_data, "measurements"), 1)
        benchmark_run ==
            CompleteBenchmarkRun([run_type |-> IF "run_type" \in report_data.has
                                               THEN Arg(report_data.run_type) ELSE NoneArg,
                                  git_repo_name |-> pipeline.project,
                                  github_pipeline_id |-> pipeline.github_pipeline_id,
                                  github_job_id |-> job.github_job_id,
                                  device_hostname |-> job.host_name,
                                  ml_model_name |-> IF "model" \in report_data.has
                                                    THEN report_data.model ELSE NoneStr,
                                  ml_model_type |-> IF "model_type" \in report_data.has
                                                    THEN report_data.model_type ELSE NoneStr,
                                  measurements |-> measurements.value])
    IN IF job.none THEN NoneRuns
       ELSE IF measurements.kind = "raise" THEN NoneRuns
       ELSE IF benchmark_run.kind = "raise" THEN NoneRuns
       ELSE Runs(<<benchmark_run.value>>)

\* _map_benchmark_data: the mapper of the pipeline's project.
MapBenchmarkData(pipeline, job_id, report_data) ==
    CASE pipeline.project = "tt-forge-fe" -> ForgeMapBenchmarkData(pipeline, job_id, report_data)
      [] pipeline.project = "tt-shield" -> ShieldMapBenchmarkData(pipeline, job_id, report_data)
      [] OTHER -> NoneRuns

\* create_json_from_report over the reports from the i-th on, in the order
\* it visits them: the runs, or the error of json.load on a report.
RECURSIVE CreateJsonFromReport(_, _, _)
CreateJsonFromReport(pipeline, reports, i) ==
    IF i > Len(reports)
    THEN Ret(<<>>)
    ELSE LET benchmark_data == MapBenchmarkData(pipeline, reports[i].job_id, reports[i].data)
             rest == CreateJsonFromReport(pipeline, reports, i + 1)
         IN IF reports[i].malformed THEN Raise("JSONDecodeError")
            ELSE IF rest.kind = "raise" THEN rest
            ELSE IF benchmark_data.none THEN rest
            ELSE Ret(benchmark_data.runs \o rest.value)

\* ------------------------------------------------------------------------
\* Pipelines and benchmark reports.
\* ------------------------------------------------------------------------

\* A job of the pipeline, as far as the mappers read it.
BenchJob(github_job_id, host_name) ==
    [none |-> FALSE, github_job_id |-> github_job_id, host_name |-> host_name,
     job_start_ts |-> Ts(1), job_end_ts |-> Ts(2)]

\* pipeline.jobs: none, one, two, two with the same id, one without host.
BenchJobLists ==
    { <<>>,
      <<BenchJob(1, Str(<<"h", "1">>))>>,
      <<BenchJob(1, Str(<<"h", "1">>)), BenchJob(2, Str(<<"h", "2">>))>>,
      <<BenchJob(1, Str(<<"h", "1">>)), BenchJob(1, Str(<<"h", "2">>))>>,
      <<BenchJob(1, NoneStr)>> }

BenchPipeline(project, jobs) ==
    [project |-> project, github_pipeline_id |-> 12345, jobs |-> jobs]

\* The job ids that report file names carry.
ReportJobIds == {1, 2, 999}

\* The fields of an entry that may hold a measurement, with their values;
\* `has` tells which keys the entry holds.
FieldValues ==
    [mean_ttft_ms |-> Num(100), std_ttft_ms |-> Num(10), mean_tps |-> Null,
     request_throughput |-> Num(7), foo_ms |-> Num(1), score |-> Num(95),
     published_score |-> Null, gpu_reference_score |-> Num(85)]

Entry(has, model) ==
    [has |-> has, model_id |-> model, model_name |-> model, model |-> model,
     backend |-> Str(<<"t", "t">>), value |-> FieldValues]

OrgLlama == <<"o", "r", "g", "/", "L", "l", "a", "m", "a">>
Llama == <<"L", "l", "a", "m", "a">>

\* Entries of the benchmarks section: by model name, and by fields.
BenchmarkEntries ==
    { Entry({"model_id", "mean_ttft_ms", "std_ttft_ms"}, mn) :
        mn \in { NoneStr, Str(OrgLlama), Str(Llama), Str(<<"o", "/", "L", "/", "x">>),
                 Str(<<>>) } }
    \cup
    { Entry(has, Str(Llama)) :
        has \in { {"model_name", "mean_ttft_ms", "std_ttft_ms"}, {"model_id"},
                  {"model_id", "request_throughput", "foo_ms", "mean_ttft_ms"},
                  {"model_id", "mean_tps", "std_ttft_ms"},
                  {"model_id", "backend", "mean_ttft_ms"} } }

\* Entries of the evals section.
EvalEntries ==
    { Entry(has, Str(Llama)) :
        has \in { {"model", "score", "gpu_reference_score"}, {"model", "published_score"},
                  {"model", "mean_ttft_ms"}, {"score"} } }

\* Entries of the parameter_support_tests section.
ParameterSupportEntries == { Entry({"model"}, Str(Llama)) }

MaxEntries == 2

\* The report of a run: the sections it holds and the fields of a
\* tt-forge-fe report.
ReportData(run_type, measurements, benchmarks, evals, parameter_support_tests) ==
    [has |-> (IF run_type = "" THEN {} ELSE {"run_type", "model"})
             \cup (IF measurements = <<>> THEN {} ELSE {"measurements"})
             \cup (IF benchmarks = <<>> THEN {} ELSE {"benchmarks"})
             \cup (IF evals = <<>> THEN {} ELSE {"evals"})
             \cup (IF parameter_support_tests = <<>> THEN {} ELSE {"parameter_support_tests"}),
     run_type |-> run_type, model |-> Str(Llama), model_type |-> NoneStr,
     metadata |-> [has |-> {}, inference_engine |-> NoneStr],
     measurements |-> measurements,
     benchmarks |-> benchmarks, evals |-> evals,
     parameter_support_tests |-> parameter_support_tests]

\* tt-shield reports of at most MaxEntries entries.
ShieldReports ==
    UNION { UNION { { ReportData("", <<>>, b, e, p) :
                        p \in SeqsUpTo(ParameterSupportEntries, MaxEntries - Len(b) - Len(e)) } :
                    e \in SeqsUpTo(EvalEntries, MaxEntries - Len(b)) } :
            b \in SeqsUpTo(BenchmarkEntries, MaxEntries) }

ShieldReportsBounded ==
    { r \in ShieldReports :
        Len(r.benchmarks) + Len(r.evals) + Len(r.parameter_support_tests) <= MaxEntries }

\* The metadata object of a report: none, or one with an inference_engine
\* that is a name or null.
ReportMetadata ==
    { [has |-> {}, inference_engine |-> NoneStr],
      [has |-> {"inference_engine"}, inference_engine |-> Str(<<"v", "l", "l", "m">>)],
      [has |-> {"inference_engine"}, inference_engine |-> NoneStr] }

ShieldReportsWithMetadata ==
    { [r EXCEPT !.metadata = md,
                !.has = IF md.has = {} THEN @ ELSE @ \cup {"metadata"}] :
        r \in ShieldReportsBounded, md \in ReportMetadata }

\* ShieldBenchmarkDataMapper().map_benchmark_data(pipeline, job_id, report_data)
ShieldMap ==
    /\ c_call.op = "none"
    /\ \E jobs \in BenchJobLists, job_id \in ReportJobIds,
          report_data \in ShieldReportsWithMetadata :
         /\ c_call' = [op |-> "shield_map", pipeline |-> BenchPipeline("tt-shield", jobs),
                       job_id |-> job_id, report_data |-> report_data]
         /\ c_out' = ShieldMapBenchmarkData(BenchPipeline("tt-shield", jobs), job_id,
                                            report_data)
    /\ UNCHANGED <<batchVars, dispatchVars, pytestVars, xunitVars, jobVars>>

InitShield == BatchIdle /\ DispatchIdle /\ ReportsIdle
NextShield == ShieldMap
SpecShield == InitShield /\ [][NextShield]_vars

\* A measurement of a tt-forge-fe report.
ForgeMeasurement(value) ==
    [iteration |-> Arg(1), step_name |-> Arg("step"), measurement_name |-> Arg("m"),
     value |-> value]

\* Report files of a run: their job id, whether json.load reads them, and
\* their content.
BenchReports ==
    { [job_id |-> id, malformed |-> FALSE, data |-> d] :
        id \in ReportJobIds,
        d \in { ReportData("", <<>>, <<Entry({"model_id", "mean_ttft_ms"}, Str(OrgLlama))>>,
                           <<Entry({"model", "score"}, Str(Llama))>>, <<>>),
                ReportData("", <<>>, <<Entry({"model_id", "mean_ttft_ms"}, NoneStr)>>,
                           <<>>, <<>>),
                ReportData("perf", <<ForgeMeasurement(Num(3))>>, <<>>, <<>>, <<>>),
                ReportData("perf", <<ForgeMeasurement(Null)>>, <<>>, <<>>, <<>>),
                ReportData("", <<>>, <<>>, <<>>, <<>>) } }
    \cup
    { [job_id |-> 1, malformed |-> TRUE, data |-> ReportData("", <<>>, <<>>, <<>>, <<>>)] }

BenchProjects == {"tt-forge-fe", "tt-shield", "tt-metal"}

\* create_json_from_report(pipeline, workflow_outputs_dir) on the report
\* files of a run, in the order it reads them.
CreateJson ==
    /\ c_call.op = "none"
    /\ \E project \in BenchProjects, jobs \in BenchJobLists,
          reports \in SeqsUpTo(BenchReports, MaxBench) :
         /\ c_call' = [op |-> "create_json", pipeline |-> BenchPipeline(project, jobs),
                       reports |-> reports]
         /\ c_out' = CreateJsonFromReport(BenchPipeline(project, jobs), reports, 1)
    /\ UNCHANGED <<batchVars, dispatchVars, pytestVars, xunitVars, jobVars>>

InitBench == BatchIdle /\ DispatchIdle /\ ReportsIdle
NextBench == CreateJson
SpecBench == InitBench /\ [][NextBench]_vars

\* ------------------------------------------------------------------------
\* Properties of the benchmark mappers.
\* ------------------------------------------------------------------------
IsCreateJsonReturn == c_call.op = "create_json" /\ c_out.kind = "return"

\* The ids of the pipeline's jobs.
PipelineJobIds ==
    { c_call.pipeline.jobs[i].github_job_id : i \in 1..Len(c_call.pipeline.jobs) }

\* The i-th report of the call carries the id of a job of the pipeline.
Matched(i) == c_call.reports[i].job_id \in PipelineJobIds

\* C17: every CompleteBenchmarkRun that the mappers return has the
\* github_job_id of a job of the pipeline; for a report whose job id matches
\* no job the mapper returns None and no run is emitted, and the reports
\* after it are still mapped.
C17_RunsResolveToJobs ==
    IsCreateJsonReturn =>
        /\ \A r \in 1..Len(c_out.value) :
             /\ c_out.value[r].github_job_id \in PipelineJobIds
             /\ \E i \in 1..Len(c_call.reports) :
                  Matched(i) /\ c_call.reports[i].job_id = c_out.value[r].github_job_id
        /\ \A i \in 1..Len(c_call.reports) :
             ~Matched(i) =>
                 /\ MapBenchmarkData(c_call.pipeline, c_call.reports[i].job_id,
                                     c_call.reports[i].data).none
                 /\ \A j \in (i + 1)..Len(c_call.reports) :
                      LET later == MapBenchmarkData(c_call.pipeline, c_call.reports[j].job_id,
                                                    c_call.reports[j].data)
                      IN (~later.none /\ later.runs /= <<>>) =>
                            \E r \in 1..Len(c_out.value) :
                                c_out.value[r] = later.runs[1]

\* A batch whose first report matches no job and whose second report is
\* mapped to runs.
C17_Witness ==
    /\ IsCreateJsonReturn
    /\ Len(c_call.reports) = 2
    /\ ~Matched(1)
    /\ Matched(2)
    /\ c_out.value /= <<>>

IsShieldMap ==
    /\ c_call.op = "shield_map"
    /\ \E i \in 1..Len(c_call.pipeline.jobs) :
         c_call.pipeline.jobs[i].github_job_id = c_call.job_id

\* The run types of the runs returned, in order.
RunTypes == [r \in 1..Len(c_out.runs) |-> c_out.runs[r].run_type.v]

\* The sequence of n copies of x.
Copies(x, n) == [i \in 1..n |-> x]

\* C18: for a tt-shield report the mapper returns one CompleteBenchmarkRun
\* per entry of the benchmarks, evals and parameter_support_tests sections,
\* with run_type "benchmark", "eval" and "parameter_support_test"; the
\* number of runs is the sum of the lengths of the three sections.
C18_OneRunPerEntry ==
    IsShieldMap =>
        /\ ~c_out.none
        /\ Len(c_out.runs) = Len(c_call.report_data.benchmarks)
                             + Len(c_call.report_data.evals)
                             + Len(c_call.report_data.parameter_support_tests)
        /\ RunTypes = Copies("benchmark", Len(c_call.report_data.benchmarks))
                      \o Copies("eval", Len(c_call.report_data.evals))
                      \o Copies("parameter_support_test",
                                Len(c_call.report_data.parameter_support_tests))

\* C18 for the benchmarks and evals sections alone, when the mapper returns
\* a list.
C18_OneRunPerBenchmarkAndEval ==
    (IsShieldMap /\ ~c_out.none) =>
        RunTypes = Copies("benchmark", Len(c_call.report_data.benchmarks))
                   \o Copies("eval", Len(c_call.report_data.evals))

\* A report with a benchmarks entry and a parameter_support_tests entry,
\* mapped to a list.
C18_Witness ==
    /\ IsShieldMap
    /\ ~c_out.none
    /\ Len(c_call.report_data.benchmarks) = 1
    /\ Len(c_call.report_data.parameter_support_tests) = 1

\* The entries of the benchmarks and evals sections with their run type and
\* whitelist, in the order of their runs.
MeasuredEntries ==
    [i \in 1..Len(c_call.report_data.benchmarks) |->
       [entry |-> c_call.report_data.benchmarks[i], run_type |-> "benchmark",
        whitelist |-> BenchmarkKeys]]
    \o [i \in 1..Len(c_call.report_data.evals) |->
          [entry |-> c_call.report_data.evals[i], run_type |-> "eval",
           whitelist |-> EvalKeys]]

\* The measurements are those of the whitelisted fields `names`, in order.
MeasurementsOf(measurements, names, entry, run_type) ==
    /\ Len(measurements) = Len(names)
    /\ \A k \in 1..Len(names) :
         /\ measurements[k].name = Arg(names[k])
         /\ measurements[k].value = entry.value[names[k]]
         /\ measurements[k].step_name = Arg(run_type)
         /\ measurements[k].iteration = Arg(1)

\* C19: the measurements of a tt-shield benchmark or eval run hold exactly
\* one BenchmarkMeasurement per whitelisted field name present in the entry,
\* none for an absent name or a field outside the whitelist, in whitelist
\* order, with name the field name, value the field's value, step_name the
\* run type and iteration 1.
C19_MeasurementsOfPresentFields ==
    (IsShieldMap /\ ~c_out.none) =>
        /\ Len(c_out.runs) = Len(MeasuredEntries)
        /\ \A r \in 1..Len(MeasuredEntries) :
             LET e == MeasuredEntries[r]
             IN MeasurementsOf(c_out.runs[r].measurements,
                               SelectSeq(e.whitelist, LAMBDA k : k \in e.entry.has),
                               e.entry, e.run_type)

\* C19 for the present fields whose value is a number.
C19_MeasurementsOfNumericFields ==
    (IsShieldMap /\ ~c_out.none) =>
        /\ Len(c_out.runs) = Len(MeasuredEntries)
        /\ \A r \in 1..Len(MeasuredEntries) :
             LET e == MeasuredEntries[r]
             IN MeasurementsOf(c_out.runs[r].measurements,
                               SelectSeq(e.whitelist,
                                         LAMBDA k : /\ k \in e.entry.has
                                                    /\ e.entry.value[k].kind = "number"),
                               e.entry, e.run_type)

\* A run of a benchmarks entry that holds two whitelisted fields out of
\* whitelist order in the report, one field outside the whitelist, and a
\* whitelisted field without a number.
C19_Witness ==
    /\ IsShieldMap
    /\ ~c_out.none
    /\ \E r \in 1..Len(c_call.report_data.benchmarks) :
         /\ {"request_throughput", "foo_ms", "mean_ttft_ms"}
              \subseteq c_call.report_data.benchmarks[r].has
         /\ Len(c_out.runs[r].measurements) = 2
    /\ \E r \in 1..Len(c_call.report_data.benchmarks) :
         "mean_tps" \in c_call.report_data.benchmarks[r].has

\* The model_id of a benchmarks entry (None if it has none), and what
\* stripping an "org/" prefix makes of a name.
ModelId(entry) == IF "model_id" \in entry.has THEN entry.model_id ELSE NoneStr

Stripped(name) ==
    IF ~name.none /\ \E k \in 1..Len(name.text) : name.text[k] = "/"
    THEN LET k == CHOOSE k \in 1..Len(name.text) :
                      /\ name.text[k] = "/"
                      /\ \A j \in 1..(k - 1) : name.text[j] /= "/"
         IN Str([i \in 1..(Len(name.text) - k) |-> name.text[k + i]])
    ELSE name

C20_WitnessNone ==
    /\ IsShieldMap
    /\ \E i \in 1..Len(c_call.report_data.benchmarks) :
         /\ ModelId(c_call.report_data.benchmarks[i]) = NoneStr
         /\ BenchmarkModelName(c_call.report_data.benchmarks[i]) = NoneStr

\* The model type that an inference engine and a backend, both present and
\* not null, make: "<engine>_<backend>"; None otherwise.
DerivedModelType(report_data, entry) ==
    LET engine == IF "metadata" \in report_data.has
                     /\ "inference_engine" \in report_data.metadata.has
                  THEN report_data.metadata.inference_engine ELSE NoneStr
        backend == IF "backend" \in entry.has THEN entry.backend ELSE NoneStr
    IN IF ~engine.none /\ ~backend.none
       THEN Str(engine.text \o <<"_">> \o backend.text)
       ELSE NoneStr

\* C21: the model type of a benchmark run is derived only when both an
\* inference-engine field and a backend field are present and not null
\* ("vllm" and "tt" give "vllm_tt"), and is None when either is missing or
\* null.
C21_ModelTypeDerived ==
    (IsShieldMap /\ ~c_out.none) =>
        \A i \in 1..Len(c_call.report_data.benchmarks) :
            c_out.runs[i].ml_model_type
              = DerivedModelType(c_call.report_data, c_call.report_data.benchmarks[i])

\* The model type of every run of the tt-shield mapper is None.
C21_ModelTypeNone ==
    (IsShieldMap /\ ~c_out.none) =>
        \A r \in 1..Len(c_out.runs) : c_out.runs[r].ml_model_type = NoneStr

\* A report with the inference engine "vllm" and a benchmarks entry with the
\* backend "tt", mapped to a run.
C21_Witness ==
    /\ IsShieldMap
    /\ ~c_out.none
    /\ \E i \in 1..Len(c_call.report_data.benchmarks) :
         /\ DerivedModelType(c_call.report_data, c_call.report_data.benchmarks[i])
              = Str(<<"v", "l", "l", "m", "_", "t", "t">>)
         /\ i <= Len(c_out.runs)

\* ------------------------------------------------------------------------
\* optests.py and the report discovery of cicd.py.
\* ------------------------------------------------------------------------

\* Python's s.endswith(suffix) for strings.
EndsWith(s, suffix) ==
    Len(s) >= Len(suffix) /\ SubSeq(s, Len(s) - Len(suffix) + 1, Len(s)) = suffix

DotXml == <<".", "x", "m", "l">>
DotTar == <<".", "t", "a", "r">>
UnderscoreBuilder == <<"_">> \o BuilderWord
MainBranch == <<"m", "a", "i", "n">>

\* should_use_builder_pytest_parser(test_report, job_name, git_branch):
\* job_name.lower() is evaluated on the first line that uses job_name,
\* before any test of it.
ShouldUseBuilderPytestParser(test_report, job_name, git_branch) ==
    LET file_name == Lower(test_report)
        is_builder_job == \/ Contains(Lower(job_name.text), BuilderWord)
                          \/ Contains(file_name, UnderscoreBuilder)
    IN IF job_name.none THEN Raise("AttributeError")
       ELSE IF ~EndsWith(file_name, DotXml) THEN Ret(FALSE)
       ELSE IF ~Truthy(job_name) \/ ~Truthy(git_branch) THEN Ret(FALSE)
       ELSE IF is_builder_job /\ git_branch.text = MainBranch THEN Ret(TRUE)
       ELSE Ret(FALSE)

\* should_use_tt_torch_model_tests_parser(test_report)
ShouldUseTtTorchModelTestsParser(test_report) == EndsWith(test_report, DotTar)

\* Python's s.split(c) for a one-character separator.
RECURSIVE Split(_, _)
Split(s, c) ==
    IF \A i \in 1..Len(s) : s[i] /= c THEN <<s>>
    ELSE LET k == CHOOSE i \in 1..Len(s) : s[i] = c /\ \A j \in 1..(i - 1) : s[j] /= c
         IN <<SubSeq(s, 1, k - 1)>> \o Split(SubSeq(s, k + 1, Len(s)), c)

Digits == <<"0", "1", "2", "3", "4", "5", "6", "7", "8", "9">>

DigitValue(c) == (CHOOSE d \in 1..Len(Digits) : Digits[d] = c) - 1

RECURSIVE DecimalValue(_)
DecimalValue(s) ==
    IF s = <<>> THEN 0
    ELSE 10 * DecimalValue(SubSeq(s, 1, Len(s) - 1)) + DigitValue(s[Len(s)])

\* int(s) on the strings of the model: a string of digits is its value,
\* anything else a ValueError.
IntOf(s) ==
    IF s /= <<>> /\ \A i \in 1..Len(s) : \E d \in 1..Len(Digits) : Digits[d] = s[i]
    THEN Ret(DecimalValue(s))
    ELSE Raise("ValueError")

\* `int(filename.split(".")[-2].split("_")[-1])`
ReportJobId(filename) ==
    LET parts == Split(filename, ".")
        tokens == Split(parts[Len(parts) - 1], "_")
    IN IF Len(parts) < 2 THEN Raise("IndexError") ELSE IntOf(tokens[Len(tokens)])

\* The `extension` argument of the discovery: a string, or a list of strings.
StrExtension(ext) == [list |-> FALSE, exts |-> {ext}]
ListExtension(exts) == [list |-> TRUE, exts |-> exts]

\* job_paths_map with a report added under its job id; a dict keeps its
\* keys in insertion order.
AddReport(job_paths_map, job_id, file) ==
    IF \E k \in 1..Len(job_paths_map) : job_paths_map[k].job_id = job_id
    THEN [k \in 1..Len(job_paths_map) |->
            IF job_paths_map[k].job_id = job_id
            THEN [job_paths_map[k] EXCEPT !.paths = Append(@, file)]
            ELSE job_paths_map[k]]
    ELSE Append(job_paths_map, [job_id |-> job_id, paths |-> <<file>>])

\* The loop of get_github_job_id_to_test_reports over the files that os.walk
\* yields. str.endswith takes a string or a tuple of strings: with a list it
\* raises TypeError at the first file.
RECURSIVE DiscoveryLoop(_, _, _, _)
DiscoveryLoop(files, extension, i, job_paths_map) ==
    IF i > Len(files) THEN Ret(job_paths_map)
    ELSE IF extension.list THEN Raise("TypeError")
    ELSE IF ~\E ext \in extension.exts : EndsWith(files[i].name, ext)
         THEN DiscoveryLoop(files, extension, i + 1, job_paths_map)
    ELSE IF ReportJobId(files[i].name).kind = "raise"
         THEN IF ReportJobId(files[i].name).exc = "ValueError"
              THEN DiscoveryLoop(files, extension, i + 1, job_paths_map)
              ELSE ReportJobId(files[i].name)
    ELSE DiscoveryLoop(files, extension, i + 1,
                       AddReport(job_paths_map, ReportJobId(files[i].name).value, files[i]))

\* get_github_job_id_to_test_reports(workflow_outputs_dir, workflow_run_id, extension)
GetGithubJobIdToTestReports(files, extension) == DiscoveryLoop(files, extension, 1, <<>>)

\* `job_id_to_name.get(github_job_id, "")`: the name of the last job with
\* that id.
JobNameOf(jobs, github_job_id) ==
    IF \E k \in 1..Len(jobs) : jobs[k].github_job_id = github_job_id
    THEN jobs[CHOOSE k \in 1..Len(jobs) :
                /\ jobs[k].github_job_id = github_job_id
                /\ \A m \in (k + 1)..Len(jobs) : jobs[m].github_job_id /= github_job_id].name
    ELSE <<>>

\* The inner loop of create_optest_reports over the reports of one job:
\* the parser is chosen outside the try, parse is called inside it.
RECURSIVE OptestReportsLoop(_, _, _, _, _)
OptestReportsLoop(test_reports, job_name, git_branch, i, tests) ==
    IF i > Len(test_reports) THEN Ret(tests)
    ELSE LET test_report == test_reports[i]
             builder == ShouldUseBuilderPytestParser(test_report.name, Str(job_name), git_branch)
             parser == IF builder.value THEN "BuilderPytestParser" ELSE "TTTorchModelTestsParser"
             go(ts) == OptestReportsLoop(test_reports, job_name, git_branch, i + 1, ts)
         IN IF builder.kind = "raise" THEN builder
            ELSE IF ~builder.value /\ ~ShouldUseTtTorchModelTestsParser(test_report.name)
                 THEN go(tests)
            ELSE IF Parse(parser, test_report.content).kind = "raise" THEN go(tests)
            ELSE go(Append(tests, Parse(parser, test_report.content).value))

RECURSIVE OptestJobsLoop(_, _, _, _, _)
OptestJobsLoop(pipeline, job_paths_map, git_branch, k, reports) ==
    IF k > Len(job_paths_map) THEN Ret(reports)
    ELSE LET github_job_id == job_paths_map[k].job_id
             job_name == JobNameOf(pipeline.jobs, github_job_id)
             tests == OptestReportsLoop(job_paths_map[k].paths, job_name, git_branch, 1, <<>>)
         IN IF tests.kind = "raise" THEN tests
            ELSE OptestJobsLoop(pipeline, job_paths_map, git_branch, k + 1,
                                Append(reports, [github_job_id |-> github_job_id,
                                                 tests |-> tests.value]))

\* create_optest_reports(pipeline, workflow_outputs_dir); files are the
\* files under the pipeline's artifacts directory, in walk order.
CreateOptestReports(pipeline, files) ==
    LET found == GetGithubJobIdToTestReports(files, ListExtension({DotTar, DotXml}))
    IN IF found.kind = "raise" THEN found
       ELSE IF Len(found.value) = 0 THEN Ret(<<>>)
       ELSE OptestJobsLoop(pipeline, found.value, pipeline.git_branch_name, 1, <<>>)

\* ------------------------------------------------------------------------
\* Inputs: report names, job names and branches; the files of an artifacts
\* directory and the pipeline that create_optest_reports is given.
\* ------------------------------------------------------------------------
ReportNames ==
    { <<"r", ".", "x", "m", "l">>,
      <<"r", ".", "t", "a", "r">>,
      <<"R", ".", "X", "M", "L">>,
      <<"r">> \o UnderscoreBuilder \o DotXml,
      <<"r">> \o UnderscoreBuilder \o DotTar }

OptBranches ==
    { NoneStr, Str(<<>>), Str(MainBranch), Str(<<"M", "a", "i", "n">>),
      Str(<<"f", "i", "x">>) }

MaxFiles == 2

ArtifactNames ==
    { <<"a", "_", "1">> \o DotXml,
      <<"b", "_", "1">> \o DotTar,
      <<"a", "_", "2">> \o DotXml,
      <<"2">> \o DotTar,
      <<"a", "_", "x">> \o DotXml,
      <<"a", "_", "1", ".", "t", "x", "t">> }

\* A file of the artifacts directory: its name and what the OpTest parsers
\* make of its content.
ArtifactFiles ==
    { [name |-> n, content |-> File("xml", FALSE, "pytest", TRUE, NotJson, raises)] :
        n \in ArtifactNames,
        raises \in {{}, {"BuilderPytestParser", "TTTorchModelTestsParser"}} }

OptestJob(github_job_id, name) == [github_job_id |-> github_job_id, name |-> name]

OptestPipelines ==
    { [jobs |-> jobs, git_branch_name |-> b, project |-> "tt-mlir"] :
        jobs \in { <<>>,
                   <<OptestJob(1, BuilderWord)>>,
                   <<OptestJob(1, <<"t", "e", "s", "t">>), OptestJob(2, BuilderWord)>> },
        b \in {Str(MainBranch), Str(<<"f", "i", "x">>)} }

\* should_use_builder_pytest_parser(test_report, job_name, git_branch)
ShouldUseCall ==
    /\ c_call.op = "none"
    /\ \E test_report \in ReportNames, job_name \in JobNames, git_branch \in OptBranches :
         /\ c_call' = [op |-> "should_use", test_report |-> test_report,
                       job_name |-> job_name, git_branch |-> git_branch]
         /\ c_out' = ShouldUseBuilderPytestParser(test_report, job_name, git_branch)
    /\ UNCHANGED <<batchVars, dispatchVars, pytestVars, xunitVars, jobVars>>

\* create_optest_reports(pipeline, workflow_outputs_dir)
CreateOptestReportsCall ==
    /\ c_call.op = "none"
    /\ \E pipeline \in OptestPipelines, files \in SeqsUpTo(ArtifactFiles, MaxFiles) :
         /\ c_call' = [op |-> "create_optest_reports", pipeline |-> pipeline, files |-> files]
         /\ c_out' = CreateOptestReports(pipeline, files)
    /\ UNCHANGED <<batchVars, dispatchVars, pytestVars, xunitVars, jobVars>>

InitOptests == BatchIdle /\ DispatchIdle /\ ReportsIdle
NextOptests ==
    \/ ShouldUseCall
    \/ CreateOptestReportsCall
SpecOptests == InitOptests /\ [][NextOptests]_vars

IsShouldUse == c_call.op = "should_use"

\* What the report name, the job name and the branch call for: an .xml
\* report, the branch main, and "builder" in the job name or "_builder" in
\* the report name.
BuilderParserCalledFor(test_report, job_name, git_branch) ==
    /\ EndsWith(Lower(test_report), DotXml)
    /\ git_branch = Str(MainBranch)
    /\ \/ ~job_name.none /\ Contains(Lower(job_name.text), BuilderWord)
       \/ Contains(Lower(test_report), UnderscoreBuilder)

\* C22: should_use_builder_pytest_parser returns True exactly when the
\* report name ends with ".xml", the branch is "main" and the job name
\* contains "builder" or the report name contains "_builder"; in every other
\* case, a None or empty job name or branch included, it returns False and
\* does not raise.
C22_TrueExactlyForBuilderReports ==
    IsShouldUse =>
        c_out = Ret(BuilderParserCalledFor(c_call.test_report, c_call.job_name,
                                           c_call.git_branch))

\* With a job name that is neither None nor empty the function returns, and
\* returns True exactly in the cases named.
C22_TrueExactlyWithJobName ==
    (IsShouldUse /\ Truthy(c_call.job_name)) =>
        c_out = Ret(BuilderParserCalledFor(c_call.test_report, c_call.job_name,
                                           c_call.git_branch))

\* A call with the job name None.
C22_Witness ==
    /\ IsShouldUse
    /\ c_call.job_name.none

IsCreateOptestReports == c_call.op = "create_optest_reports"

\* The job ids that have a report with a .tar or .xml extension.
ReportedJobIds ==
    { ReportJobId(c_call.files[i].name).value :
        i \in { j \in 1..Len(c_call.files) :
                  /\ \/ EndsWith(c_call.files[j].name, DotTar)
                     \/ EndsWith(c_call.files[j].name, DotXml)
                  /\ ReportJobId(c_call.files[j].name).kind = "return" } }

\* C23: create_optest_reports returns exactly one (job id, tests) entry per
\* job id that has a .tar or .xml report under the artifacts directory, the
\* empty list when there is none; a report that fails to parse neither
\* removes its job's entry nor aborts the others.
C23_OneEntryPerReportedJob ==
    IsCreateOptestReports =>
        /\ c_out.kind = "return"
        /\ { c_out.value[k].github_job_id : k \in 1..Len(c_out.value) } = ReportedJobIds
        /\ Len(c_out.value) = Cardinality(ReportedJobIds)

\* With no file under the artifacts directory the call returns the empty list.
C23_EmptyWithoutFiles ==
    (IsCreateOptestReports /\ c_call.files = <<>>) => c_out = Ret(<<>>)

\* A call on a directory that holds an .xml report of job 1.
C23_Witness ==
    /\ IsCreateOptestReports
    /\ 1 \in ReportedJobIds

\* ------------------------------------------------------------------------
\* cicd.py: create_cicd_json_for_data_analysis. Instants are microseconds;
\* the timestamps of the CI provider's job records are whole seconds.
\* ------------------------------------------------------------------------
Second == 1000000
Millisecond == 1000

\* The timestamp corrections of get_job_row_from_github_job.
GetJobRowFromGithubJob(github_job) ==
    LET job_status == github_job.conclusion
        job_submission_ts == IF github_job.created_at > github_job.started_at
                             THEN github_job.started_at ELSE github_job.created_at
        job_start_ts == IF job_status = "skipped"
                        THEN job_submission_ts ELSE github_job.started_at
    IN [github_job_id |-> github_job.id, name |-> github_job.name,
        job_submission_ts |-> job_submission_ts, job_start_ts |-> job_start_ts,
        job_status |-> job_status]

\* The same function with the random milliseconds taken off the timestamp.
MutAlterTime(timestamp, ms) == ((timestamp - ms * Millisecond) \div Millisecond) * Millisecond

\* alter_time(timestamp), ms being the number random.randint(0, 999) gives:
\* the sum is written with timespec="milliseconds", which cuts it to whole
\* milliseconds.
AlterTime(timestamp, ms) == ((timestamp + ms * Millisecond) \div Millisecond) * Millisecond

\* The same call with the branch main passed on.
MutAssemblyParseFile(test_report, job_name) ==
    ParseFile(test_report.content, job_name, TrunkBranch)

\* `parse_file(test_report_path, project=project, github_job_id=github_job_id,
\* job_name=job_name)`: git_branch keeps its default, None.
AssemblyParseFile(test_report, job_name) ==
    ParseFile(test_report.content, job_name, None)

\* The loop over the reports of one job: parse_file is called with project,
\* github_job_id and job_name, and nothing else. tests holds, per report
\* that gave a list, the report and the parser that made the list; calls are
\* the parser methods invoked.
RECURSIVE AssembleReports(_, _, _, _, _)
AssembleReports(test_reports, job_name, i, tests, calls) ==
    IF i > Len(test_reports) THEN [out |-> Ret(tests), calls |-> calls]
    ELSE LET tests_in_report == AssemblyParseFile(test_reports[i], job_name)
             called == calls \o tests_in_report.calls
         IN IF tests_in_report.out.kind = "raise"
            THEN [out |-> tests_in_report.out, calls |-> called]
            ELSE AssembleReports(test_reports, job_name, i + 1,
                                 IF tests_in_report.out.value = EmptyList THEN tests
                                 ELSE Append(tests,
                                             [report |-> test_reports[i],
                                              parser |-> tests_in_report.out.value.parser]),
                                 called)

\* `github_job_id_to_test_reports[github_job_id]`, or no report.
ReportsOfJob(found, github_job_id) ==
    IF \E k \in 1..Len(found) : found[k].job_id = github_job_id
    THEN found[CHOOSE k \in 1..Len(found) : found[k].job_id = github_job_id].paths
    ELSE <<>>

\* Job(**raw_job, tests=tests) raises ValidationError when the list holds a
\* None, which the pytest parser leaves for a record that failed validation.
JobValid(tests) ==
    ~\E t \in 1..Len(tests) :
        tests[t].parser = "PythonPytestParser" /\ tests[t].report.invalid

\* The loop over raw_jobs.
RECURSIVE AssembleJobs(_, _, _, _, _)
AssembleJobs(github_jobs, found, k, jobs, calls) ==
    IF k > Len(github_jobs) THEN [out |-> Ret(jobs), calls |-> calls]
    ELSE LET raw_job == GetJobRowFromGithubJob(github_jobs[k])
             parsed == AssembleReports(ReportsOfJob(found, raw_job.github_job_id),
                                       Str(raw_job.name), 1, <<>>, calls)
             job == [github_job_id |-> raw_job.github_job_id, name |-> raw_job.name,
                     job_submission_ts |-> raw_job.job_submission_ts,
                     job_start_ts |-> AlterTime(raw_job.job_start_ts, github_jobs[k].ms),
                     tests |-> parsed.out.value]
         IN IF parsed.out.kind = "raise" THEN parsed
            ELSE AssembleJobs(github_jobs, found, k + 1,
                              IF JobValid(parsed.out.value) THEN Append(jobs, job) ELSE jobs,
                              parsed.calls)

\* create_cicd_json_for_data_analysis: the reports are discovered with the
\* default extension ".xml".
CreateCicdJsonForDataAnalysis(github_jobs, files) ==
    LET found == GetGithubJobIdToTestReports(files, StrExtension(DotXml))
    IN IF found.kind = "raise" THEN [out |-> found, calls |-> <<>>]
       ELSE AssembleJobs(github_jobs, found.value, 1, <<>>, <<>>)

\* ------------------------------------------------------------------------
\* Inputs: the job records of the CI provider, with the random number drawn
\* for each, and the files of the artifacts directory.
\* ------------------------------------------------------------------------
GithubJob(id, name, created_at, started_at, conclusion, ms) ==
    [id |-> id, name |-> name, created_at |-> created_at, started_at |-> started_at,
     conclusion |-> conclusion, ms |-> ms]

FirstJobs ==
    { GithubJob(1, name, created_at * Second, 2 * Second, conclusion, ms) :
        name \in {BuilderWord, <<"t", "e", "s", "t">>}, created_at \in 1..3,
        conclusion \in {"success", "skipped"}, ms \in {0, 999} }

SecondJobs ==
    { GithubJob(2, <<"t", "e", "s", "t">>, created_at * Second, 2 * Second, "failure", 500) :
        created_at \in {1, 3} }

GithubJobLists ==
    {<<>>} \cup { <<j>> : j \in FirstJobs \cup SecondJobs }
           \cup { <<j1, j2>> : j1 \in FirstJobs, j2 \in SecondJobs }

PytestContent == File("xml", FALSE, "pytest", TRUE, NotJson, {})

AssemblyFile(name, content, invalid) == [name |-> name, content |-> content, invalid |-> invalid]

AssemblyFiles ==
    { AssemblyFile(<<"a", "_", "1">> \o DotXml, PytestContent, FALSE),
      AssemblyFile(<<"a", "_", "1">> \o DotXml, PytestContent, TRUE),
      AssemblyFile(<<"a", "_", "1">> \o DotXml,
                   File("xml", FALSE, "malformed", FALSE, NotJson, XmlParsers), FALSE),
      AssemblyFile(<<"b", "_", "1">> \o DotXml,
                   File("xml", FALSE, "xunit", FALSE, NotJson, {}), FALSE),
      AssemblyFile(<<"a", "_", "2">> \o DotXml, PytestContent, FALSE),
      AssemblyFile(<<"a", "_", "9">> \o DotXml, PytestContent, FALSE),
      AssemblyFile(<<"a", "_", "x">> \o DotXml, PytestContent, FALSE),
      AssemblyFile(<<"a", "_", "1">> \o DotTar, PytestContent, FALSE) }

\* create_cicd_json_for_data_analysis(...) on a pipeline of the given branch
CreateCicdJson ==
    /\ c_call.op = "none"
    /\ \E github_jobs \in GithubJobLists, files \in SeqsUpTo(AssemblyFiles, MaxFiles),
          git_branch_name \in {"main", "fix"} :
         /\ c_call' = [op |-> "create_cicd_json", github_jobs |-> github_jobs,
                       files |-> files, git_branch_name |-> git_branch_name]
         /\ c_out' = CreateCicdJsonForDataAnalysis(github_jobs, files)
    /\ UNCHANGED <<batchVars, dispatchVars, pytestVars, xunitVars, jobVars>>

InitAssembly == BatchIdle /\ DispatchIdle /\ ReportsIdle
NextAssembly == CreateCicdJson
SpecAssembly == InitAssembly /\ [][NextAssembly]_vars

\* The call returned a pipeline.
Assembled == c_call.op = "create_cicd_json" /\ c_out.out.kind = "return"

\* C24: every Job of an assembled Pipeline has job_submission_ts <=
\* job_start_ts: a job created after it started is submitted at its start, a
\* skipped job starts at its submission, and the random 0-999 ms added to
\* the start afterwards never move it before the submission.
C24_SubmissionNotAfterStart ==
    Assembled =>
        \A k \in 1..Len(c_out.out.value) :
            c_out.out.value[k].job_submission_ts <= c_out.out.value[k].job_start_ts

\* A pipeline with a job that was created after it started, and one with a
\* skipped job that was created before it started.
C24_Witness ==
    /\ Assembled
    /\ \E k \in 1..Len(c_out.out.value), g \in 1..Len(c_call.github_jobs) :
         /\ c_call.github_jobs[g].id = c_out.out.value[k].github_job_id
         /\ c_call.github_jobs[g].created_at > c_call.github_jobs[g].started_at
         /\ c_call.github_jobs[g].ms = 0
         /\ c_out.out.value[k].job_submission_ts = c_out.out.value[k].job_start_ts

\* What the tt-shield mapper returns for the report that holds the i-th entry
\* of a section and nothing else.
AloneRuns(section, i) ==
    ShieldMapBenchmarkData(c_call.pipeline, c_call.job_id,
        [c_call.report_data EXCEPT
            !.benchmarks = IF section = "benchmarks" THEN <<c_call.report_data.benchmarks[i]>>
                           ELSE <<>>,
            !.evals = IF section = "evals" THEN <<c_call.report_data.evals[i]>> ELSE <<>>])

\* The entries of the report read by the mapper, as (section, index) pairs.
ReadEntries ==
    { <<"benchmarks", i>> : i \in 1..Len(Section(c_call.report_data, "benchmarks")) }
    \cup { <<"evals", i>> : i \in 1..Len(Section(c_call.report_data, "evals")) }

\* C25: a schema-validation failure drops only the failing record: when one
\* benchmark or eval entry of a tt-shield report fails CompleteBenchmarkRun
\* validation, the runs built from the other entries of the report are still
\* returned, and the failure flag is marked.
C25_OnlyFailingRecordDropped ==
    (IsShieldMap /\ \E e \in ReadEntries : AloneRuns(e[1], e[2]).none) =>
        /\ \A e \in ReadEntries :
             ~AloneRuns(e[1], e[2]).none =>
                 /\ ~c_out.none
                 /\ \E r \in 1..Len(c_out.runs) : c_out.runs[r] = AloneRuns(e[1], e[2]).runs[1]
        /\ IsFailure(FailureHappened(report_failure))

\* When an entry of the report fails validation the mapper returns None for
\* the whole report.
C25_ReportDroppedOnFailure ==
    (IsShieldMap /\ \E e \in ReadEntries : AloneRuns(e[1], e[2]).none) => c_out.none

\* A report with an entry whose run fails validation and an entry whose run
\* validates.
C25_Witness ==
    /\ IsShieldMap
    /\ \E e \in ReadEntries : AloneRuns(e[1], e[2]).none
    /\ \E e \in ReadEntries : ~AloneRuns(e[1], e[2]).none

\* The .xml reports under the artifacts directory whose file name ends in the
\* id of the job, in discovery order, each with the parser that made its list.
ExpectedTests(github_job) ==
    LET mine == SelectSeq(c_call.files,
                          LAMBDA f : /\ EndsWith(f.name, DotXml)
                                     /\ ReportJobId(f.name) = Ret(github_job.id))
    IN [i \in 1..Len(mine) |->
          [report |-> mine[i],
           parser |-> ParseFile(mine[i].content, Str(github_job.name), None).out.value.parser]]

\* C26: after pipeline assembly every Test parsed from a report file is owned
\* by exactly one Job, the job whose id is the trailing underscore-separated
\* token of the report's file name, and that Job's tests are the
\* concatenation, in discovery order, of the parse results of all its
\* reports; a job with no report has an empty tests list, and a report whose
\* job id matches no job is attached to no job.
C26_TestsOwnedByTheirJob ==
    Assembled =>
        /\ \A g \in 1..Len(c_call.github_jobs) :
             /\ Cardinality({ k \in 1..Len(c_out.out.value) :
                                c_out.out.value[k].github_job_id = c_call.github_jobs[g].id }) = 1
             /\ \A k \in 1..Len(c_out.out.value) :
                  c_out.out.value[k].github_job_id = c_call.github_jobs[g].id =>
                      c_out.out.value[k].tests = ExpectedTests(c_call.github_jobs[g])
        /\ \A k \in 1..Len(c_out.out.value) :
             \E g \in 1..Len(c_call.github_jobs) :
                 c_out.out.value[k].github_job_id = c_call.github_jobs[g].id

\* Every Job that the assembled Pipeline holds has the tests of its reports,
\* in discovery order, and of no other report.
C26_KeptJobsOwnTheirTests ==
    Assembled =>
        \A k \in 1..Len(c_out.out.value) :
            \E g \in 1..Len(c_call.github_jobs) :
                /\ c_out.out.value[k].github_job_id = c_call.github_jobs[g].id
                /\ c_out.out.value[k].tests = ExpectedTests(c_call.github_jobs[g])

\* A pipeline assembled from a job with two reports, one of them holding a
\* record that fails validation.
C26_Witness ==
    /\ Assembled
    /\ \E g \in 1..Len(c_call.github_jobs) :
         /\ Len(ExpectedTests(c_call.github_jobs[g])) = 2
         /\ \E t \in 1..2 : ExpectedTests(c_call.github_jobs[g])[t].report.invalid
         /\ \E t \in 1..2 : ~ExpectedTests(c_call.github_jobs[g])[t].report.invalid

\* A pipeline whose job holds the tests of two reports.
C26_WitnessKept ==
    /\ Assembled
    /\ \E k \in 1..Len(c_out.out.value) : Len(c_out.out.value[k].tests) = 2

\* C28: during pipeline assembly parse_file is called without a branch, so
\* for every job name and every pipeline branch, a builder job on main
\* included, the builder parser's parse is never invoked and every element
\* of Job.tests comes from the pytest XML or the generic xUnit parser.
C28_BuilderParserNeverUsed ==
    c_call.op = "create_cicd_json" =>
        /\ \A n \in 1..Len(c_out.calls) : c_out.calls[n] /= <<"parse", "BuilderPytestParser">>
        /\ Assembled =>
             \A k \in 1..Len(c_out.out.value) :
                 \A t \in 1..Len(c_out.out.value[k].tests) :
                     c_out.out.value[k].tests[t].parser
                       \in {"PythonPytestParser", "PythonUnittestParser"}

\* A pipeline on main whose builder job has a report that the builder parser
\* can parse, with the tests of that report in the job.
C28_Witness ==
    /\ Assembled
    /\ c_call.git_branch_name = "main"
    /\ \E k \in 1..Len(c_out.out.value) :
         /\ IsBuilderJob(Str(c_out.out.value[k].name))
         /\ \E t \in 1..Len(c_out.out.value[k].tests) :
              BuilderCanParse(c_out.out.value[k].tests[t].report.content) = Ret(TRUE)

\* The backend property of the testcase is missing or names no backend.
BadBackend(testcase) ==
    \/ "backend" \notin testcase.properties.has
    \/ testcase.properties.backend \notin {"ttnn", "ttmetal", "ttnn-standalone"}

C27_ElementsWithoutNameSkipped ==
    (/\ c_call.op = "builder_parse"
     /\ c_call.testsuite.has_timestamp
     /\ \A i \in 1..Len(c_call.testsuite.testcases) :
          ~IsValidTestcase(c_call.testsuite.testcases[i]))
    => c_out = Ret(<<>>)

C29_ErrorMessageIffFailed ==
    (IsTarParse /\ c_out.kind = "return") =>
        \A i \in 1..Len(c_out.value) :
            ~c_out.value[i].none =>
                ((c_out.value[i].error_message /= None) <=> ~c_out.value[i].success)

\* Every OpTest of the tarred-archive parser carries an error_message, the
\* successful ones included.
C29_ErrorMessageNeverNull ==
    (IsTarParse /\ c_out.kind = "return") =>
        \A i \in 1..Len(c_out.value) :
            ~c_out.value[i].none => c_out.value[i].error_message /= None

\* An OpTest emitted for a record whose compilation status is EXECUTED.
C29_Witness ==
    /\ IsTarParse
    /\ c_out.kind = "return"
    /\ \E i \in 1..Len(c_out.value) :
         /\ ~c_out.value[i].none
         /\ c_out.value[i].success
         /\ c_call.archive[i].test.compilation_status = EXECUTED

\* The report without its metadata object.
WithoutMetadata(data) == [data EXCEPT !.metadata = NoMetadata, !.has = @ \ {"metadata"}]

\* A Test without its config.
WithoutConfig(test) == [test EXCEPT !.config = [type |-> "dict"]]

\* C30: in the parameter-support parser the top-level metadata object
\* changes only the config fields of the emitted Tests: the groups and
\* outcomes iterated are those of parameter_support_tests.results, whatever
\* keys metadata contains (a key named results included), so the number and
\* order of the emitted Tests do not depend on metadata.
C30_MetadataChangesConfigOnly ==
    (c_call.op = "param_parse" /\ c_call.test_parser) =>
        LET plain == ParamParseFile(WithoutMetadata(c_call.data), TRUE, c_call.strict)
        IN /\ c_out.kind = plain.kind
           /\ Len(c_out.value) = Len(plain.value)
           /\ \A i \in 1..Len(plain.value) :
                WithoutConfig(c_out.value[i]) = WithoutConfig(plain.value[i])

\* The same for a metadata object without a key named results.
C30_MetadataWithoutResults ==
    (/\ c_call.op = "param_parse"
     /\ c_call.test_parser
     /\ "results" \notin c_call.data.metadata.has)
    => C30_MetadataChangesConfigOnly

\* A parse of a report whose metadata holds a results object other than
\* that of parameter_support_tests.
C30_Witness ==
    /\ c_call.op = "param_parse"
    /\ c_call.test_parser
    /\ ~c_call.strict
    /\ "metadata" \in c_call.data.has
    /\ "results" \in c_call.data.metadata.has
    /\ c_call.data.metadata.results /= c_call.data.parameter_support_tests.results
    /\ Len(c_call.data.parameter_support_tests.results) = 1
====
